---- MODULE Spec2Model ----
(***************************************************************************)
(* The algebraic-effect runtime of the repository: programs as operation   *)
(* trees (expr.ts, and the JavaScript listing with plain leaves), the      *)
(* sequencer bind, the handler and the structured program builder go.      *)
(*                                                                         *)
(* JavaScript values are records, one record shape per kind of value, so   *)
(* that any two values can be compared:                                    *)
(*   number n            [num |-> n]                                       *)
(*   string s            [str |-> s]                                       *)
(*   boolean b           [bool |-> b]                                      *)
(*   undefined           [undefined |-> TRUE]                              *)
(*   array               [items |-> <<...>>]                               *)
(*   {tag: "pure", ...}  [tag |-> "pure", value |-> v]                     *)
(*   a function          [fn |-> <the lambda of the source>, <captured>]   *)
(*   a thrown error      [throw |-> <error name>]                          *)
(* Functions are closures: the record names the lambda of the source and   *)
(* holds the variables it captured; Apply calls one.  The source's         *)
(* functions run inside a "world" (what a call can change besides its      *)
(* result: the console, the log of model-entry calls); every operator      *)
(* that can run user code takes a world and returns [v |-> result,         *)
(* w |-> world after].  The world holds the console, the host's pending    *)
(* timers and clock, and the variables that closures share (heap).  It     *)
(* also keeps three logs, which the code does not have and nothing in it   *)
(* reads: the calls of model entries, the calls go makes of its generator  *)
(* function, and the calls of resume.                                      *)
(***************************************************************************)
EXTENDS Integers, Sequences, FiniteSets, TLC

VARIABLES lang, program, steps, out

vars == <<lang, program, steps, out>>

----------------------------------------------------------------------------
(* JavaScript values *)

Num(n) == [num |-> n]
Str(s) == [str |-> s]
Bool(b) == [bool |-> b]
undefined == [undefined |-> TRUE]
Arr(s) == [items |-> s]
Throw(e) == [throw |-> e]

IsThrow(v) == "throw" \in DOMAIN v
IsNum(v) == "num" \in DOMAIN v
IsFunction(v) == "fn" \in DOMAIN v \/ "gen" \in DOMAIN v

\* o.f of JavaScript: undefined when the object has no such property
Prop(o, f) == IF f \in DOMAIN o THEN o[f] ELSE undefined

\* the i-th actual argument of a call, undefined when fewer were passed
Arg(args, i) == IF i <= Len(args) THEN args[i] ELSE undefined

\* truthiness of a value
Truthy(v) ==
  IF "bool" \in DOMAIN v THEN v.bool
  ELSE IF "num" \in DOMAIN v THEN v.num # 0
  ELSE IF "str" \in DOMAIN v THEN v.str # ""
  ELSE IF "undefined" \in DOMAIN v THEN FALSE
  ELSE TRUE

Ret(v, w) == [v |-> v, w |-> w]

\* the world before anything ran
W0 ==
  [calls |-> <<>>, made |-> <<>>, resumed |-> <<>>, console |-> <<>>,
   timers |-> <<>>, now |-> 0, heap |-> <<>>]

\* what a consumer may answer an operation with
Answers == {undefined, Bool(TRUE), Bool(FALSE)}

RECURSIVE Call(_, _, _)
RECURSIVE bind(_, _, _)
RECURSIVE evaluate(_, _, _)
RECURSIVE bindJS(_, _, _)
RECURSIVE handlerJS(_, _, _)
RECURSIVE handle(_, _, _)
RECURSIVE go(_, _, _, _)
RECURSIVE ReplayFrom(_, _)
RECURSIVE Segment(_, _, _, _)
RECURSIVE nest(_, _, _, _)
RECURSIVE all(_, _)

\* F(e), with e evaluated once, before F runs.  The continuations of the
\* runtime (go, the resume functions, gen.next) write this binding out in
\* full, CHOOSE y \in {F(x) : x \in {e}} : TRUE, which keeps the evaluation
\* of deep continuation chains within TLC's stack.
With(e, F(_)) == CHOOSE y \in {F(x) : x \in {e}} : TRUE

\* run F on the result of r unless r threw
AndThen(r, F(_, _)) ==
  CHOOSE y \in {IF IsThrow(x.v) THEN x ELSE F(x.v, x.w) : x \in {r}} : TRUE

\* f(a)
Apply(f, a, w) == Call(f, <<a>>, w)

\* name(...args), for a function the listing defines at its top level
Do(name, args, w) == Call([fn |-> name], args, w)

----------------------------------------------------------------------------
(* expr.ts: the tagged representation *)

HasTag(p, t) == "tag" \in DOMAIN p /\ p.tag = t

pure(value) == [tag |-> "pure", value |-> value]

\* a parameter left out, or passed as undefined, takes its default
operation(name, params, resume) ==
  [tag |-> "operation",
   name |-> name,
   params |-> IF params = undefined THEN Arr(<<>>) ELSE params,
   resume |-> IF resume = undefined THEN [fn |-> "pure"] ELSE resume]

random == operation(Str("random"), undefined, undefined)

log(message) == operation(Str("log"), Arr(<<message>>), undefined)

\* a => bind(resume(a), then), but sequencing one level only: a node that
\* resume(a) returns is left as it is
bind_resume_shallow(f, a, w) ==
  AndThen(Apply(f.resume, a, w),
          LAMBDA v, w1 : IF HasTag(v, "pure") THEN bind(v, f.then, w1)
                         ELSE Ret(v, w1))

\* a => bind(resume(a), then)
bind_resume(f, a, w) ==
  AndThen(Apply(f.resume, a, w), LAMBDA v, w1 : bind(v, f.then, w1))

\* bind that hands the leaf itself, not its value, to then
bind_leafItself(prog, then, w) ==
  IF prog = undefined THEN Ret(Throw("TypeError"), w)
  ELSE IF HasTag(prog, "pure") THEN Apply(then, prog, w)
  ELSE Ret(operation(Prop(prog, "name"), Prop(prog, "params"),
                     [fn |-> "bind_resume", resume |-> Prop(prog, "resume"),
                      then |-> then]), w)

bind(prog, then, w) ==
  IF prog = undefined THEN Ret(Throw("TypeError"), w)
  ELSE IF HasTag(prog, "pure") THEN Apply(then, prog.value, w)
  ELSE Ret(operation(Prop(prog, "name"), Prop(prog, "params"),
                     [fn |-> "bind_resume", resume |-> Prop(prog, "resume"),
                      then |-> then]), w)

\* the property key a value is looked up under by `name in model`
Key(name) == IF "str" \in DOMAIN name THEN name.str ELSE "undefined"

\* the world after the call resume(a) was made
Resumed(w, resume, a) ==
  [w EXCEPT !.resumed = Append(@, [resume |-> resume, a |-> a])]

\* a => evaluate(resume(a))
evaluate_resume(f, a, w) ==
  AndThen(Apply(f.resume, a, Resumed(w, f.resume, a)),
          LAMBDA v, w1 : evaluate(f.model, v, w1))

\* the world after the call model[name](...args) was made
Called(w, name, args) ==
  [w EXCEPT !.calls = Append(@, [name |-> name, args |-> args])]

\* a handler that raises an error on an operation its model lacks
evaluate_reporting(model, prog, w) ==
  IF prog = undefined THEN Ret(Throw("TypeError"), w)
  ELSE IF HasTag(prog, "pure")
    THEN IF "return" \in DOMAIN model
           THEN Apply(model["return"], prog.value, w)
           ELSE Ret(prog.value, w)
    ELSE LET name == Prop(prog, "name")
             params == Prop(prog, "params")
             k == [fn |-> "evaluate_resume", model |-> model,
                   resume |-> Prop(prog, "resume")]
         IN IF Key(name) \in DOMAIN model
              THEN IF params = undefined THEN Ret(Throw("TypeError"), w)
                   ELSE Call(model[Key(name)], Append(params.items, k),
                             Called(w, name, Append(params.items, k)))
              ELSE Ret(Throw("UnhandledEffect"), w)

\* a handler that forwards an operation its model lacks with the resume
\* it came with
evaluate_forwardAsIs(model, prog, w) ==
  IF prog = undefined THEN Ret(Throw("TypeError"), w)
  ELSE IF HasTag(prog, "pure")
    THEN IF "return" \in DOMAIN model
           THEN Apply(model["return"], prog.value, w)
           ELSE Ret(prog.value, w)
    ELSE LET name == Prop(prog, "name")
             params == Prop(prog, "params")
             k == [fn |-> "evaluate_resume", model |-> model,
                   resume |-> Prop(prog, "resume")]
         IN IF Key(name) \in DOMAIN model
              THEN IF params = undefined THEN Ret(Throw("TypeError"), w)
                   ELSE Call(model[Key(name)], Append(params.items, k),
                             Called(w, name, Append(params.items, k)))
              ELSE Ret(operation(name, params, Prop(prog, "resume")), w)

\* handler(model)(prog)
evaluate(model, prog, w) ==
  IF prog = undefined THEN Ret(Throw("TypeError"), w)
  ELSE IF HasTag(prog, "pure")
    THEN IF "return" \in DOMAIN model
           THEN Apply(model["return"], prog.value, w)
           ELSE Ret(prog.value, w)
    ELSE LET name == Prop(prog, "name")
             params == Prop(prog, "params")
             k == [fn |-> "evaluate_resume", model |-> model,
                   resume |-> Prop(prog, "resume")]
         IN IF Key(name) \in DOMAIN model
              THEN IF params = undefined THEN Ret(Throw("TypeError"), w)
                   ELSE Call(model[Key(name)], Append(params.items, k),
                             Called(w, name, Append(params.items, k)))
              ELSE Ret(operation(name, params, k), w)

----------------------------------------------------------------------------
(* The JavaScript listing: a leaf is any value that is not an operation *)

NaN == [nan |-> TRUE]

RECURSIVE Join(_)
ToStr(v) ==
  IF "str" \in DOMAIN v THEN v.str
  ELSE IF "num" \in DOMAIN v THEN ToString(v.num)
  ELSE IF "bool" \in DOMAIN v THEN (IF v.bool THEN "true" ELSE "false")
  ELSE IF "undefined" \in DOMAIN v THEN "undefined"
  ELSE IF "nan" \in DOMAIN v THEN "NaN"
  ELSE IF "items" \in DOMAIN v THEN Join(v.items)
  ELSE IF "fn" \in DOMAIN v THEN "function"
  ELSE "[object Object]"

\* Array.prototype.join(","), which prints undefined as the empty string
Join(s) ==
  IF s = <<>> THEN ""
  ELSE LET h == IF s[1] = undefined THEN "" ELSE ToStr(s[1])
       IN IF Len(s) = 1 THEN h ELSE h \o "," \o Join(Tail(s))

IsPrimitiveNumeric(v) ==
  \/ "num" \in DOMAIN v \/ "bool" \in DOMAIN v
  \/ "undefined" \in DOMAIN v \/ "nan" \in DOMAIN v

\* the number a value converts to; the strings met here are empty or not
\* numerals, and an array converts as its join does
ToNumber(v) ==
  IF "num" \in DOMAIN v THEN v
  ELSE IF "bool" \in DOMAIN v THEN Num(IF v.bool THEN 1 ELSE 0)
  ELSE IF "str" \in DOMAIN v THEN (IF v.str = "" THEN Num(0) ELSE NaN)
  ELSE IF "items" \in DOMAIN v
    THEN (IF Join(v.items) = "" THEN Num(0)
          ELSE IF Len(v.items) = 1 /\ IsPrimitiveNumeric(v.items[1])
            THEN (IF "bool" \in DOMAIN v.items[1] THEN NaN ELSE v.items[1])
          ELSE NaN)
  ELSE NaN

\* a + b
Plus(a, b) ==
  IF IsPrimitiveNumeric(a) /\ IsPrimitiveNumeric(b)
    THEN (IF IsNum(ToNumber(a)) /\ IsNum(ToNumber(b))
            THEN Num(ToNumber(a).num + ToNumber(b).num) ELSE NaN)
    ELSE Str(ToStr(a) \o ToStr(b))

\* a - b
Minus(a, b) ==
  IF IsNum(ToNumber(a)) /\ IsNum(ToNumber(b))
    THEN Num(ToNumber(a).num - ToNumber(b).num) ELSE NaN

\* Math.max(a, b)
MathMax(a, b) ==
  IF IsNum(ToNumber(a)) /\ IsNum(ToNumber(b))
    THEN (IF ToNumber(a).num >= ToNumber(b).num THEN ToNumber(a)
          ELSE ToNumber(b))
    ELSE NaN

id == [fn |-> "id"]

IsOperation(tree) == "_IS_OPERATION_" \in DOMAIN tree

operationJS(name, params, resume) ==
  [_IS_OPERATION_ |-> TRUE,
   name |-> name,
   params |-> IF params = undefined THEN Arr(<<>>) ELSE params,
   resume |-> IF resume = undefined THEN id ELSE resume]

\* a => bind(resume(a), then)
bindJS_resume(f, a, w) ==
  CHOOSE y \in {IF IsThrow(r.v) THEN r ELSE bindJS(r.v, f.then, r.w) :
                  r \in {Call(f.resume, <<a>>, w)}} : TRUE

bindJS(prog, then, w) ==
  IF ~IsOperation(prog) THEN Call(then, <<prog>>, w)
  ELSE Ret(operationJS(prog.name, prog.params,
                       [fn |-> "bindJS_resume", resume |-> prog.resume,
                        then |-> then]), w)

\* xs => [...xs, x]
all_cons_last(f, xs, w) ==
  IF "items" \in DOMAIN xs THEN Ret(Arr(Append(xs.items, f.x)), w)
  ELSE Ret(Throw("TypeError"), w)

\* xs => [x, ...xs]
all_cons(f, xs, w) ==
  IF "items" \in DOMAIN xs THEN Ret(Arr(<<f.x>> \o xs.items), w)
  ELSE Ret(Throw("TypeError"), w)

\* x => bind(all(rest), xs => [x, ...xs])
all_then(f, x, w) ==
  AndThen(all(f.rest, w),
          LAMBDA t, w1 : bindJS(t, [fn |-> "all_cons", x |-> x], w1))

\* all(computations), the array being the sequence computations
all(computations, w) ==
  IF computations = <<>> THEN Ret(Arr(<<>>), w)
  ELSE bindJS(Head(computations),
              [fn |-> "all_then", rest |-> Tail(computations)], w)

\* args => func(...args)
ap_apply(f, args, w) ==
  IF "items" \in DOMAIN args THEN Call(f.func, args.items, w)
  ELSE Ret(Throw("TypeError"), w)

\* func => bind(all(cargs), args => func(...args))
ap_then(f, func, w) ==
  AndThen(all(f.cargs, w),
          LAMBDA t, w1 : bindJS(t, [fn |-> "ap_apply", func |-> func], w1))

\* ap(cfunc, ...cargs)
ap(cfunc, cargs, w) == bindJS(cfunc, [fn |-> "ap_then", cargs |-> cargs], w)

\* seq(...computations)
seq(computations, w) ==
  AndThen(all(computations, w),
          LAMBDA t, w1 : bindJS(t, [fn |-> "K_last"], w1))

\* x => resume(x): a continuation that leaves the subtree unhandled
handlerJS_resume_bare(f, x, w) ==
  Call(f.resume, <<x>>, Resumed(w, f.resume, x))

\* x => evaluate(resume(x)) of the handler that calls model[name] itself
handlerJS_resume(f, x, w) ==
  CHOOSE y \in {IF IsThrow(r.v) THEN r ELSE handlerJS(f.model, r.v, r.w) :
                  r \in {Call(f.resume, <<x>>, Resumed(w, f.resume, x))}} :
    TRUE

\* a handler that calls the entry of its model a second time
handlerJS_twice(model, tree, w) ==
  IF ~IsOperation(tree)
    THEN IF "return" \in DOMAIN model
           THEN Apply(model["return"], tree, w)
           ELSE Ret(tree, w)
    ELSE LET k == [fn |-> "handlerJS_resume", model |-> model,
                   resume |-> tree.resume]
             args == Append(tree.params.items, k)
         IN IF Key(tree.name) \in DOMAIN model
              THEN AndThen(Call(model[Key(tree.name)], args,
                                Called(w, tree.name, args)),
                           LAMBDA v, w1 :
                             Call(model[Key(tree.name)], args,
                                  Called(w1, tree.name, args)))
              ELSE Ret(operationJS(tree.name, tree.params, k), w)

handlerJS(model, tree, w) ==
  IF ~IsOperation(tree)
    THEN IF "return" \in DOMAIN model
           THEN Apply(model["return"], tree, w)
           ELSE Ret(tree, w)
    ELSE LET k == [fn |-> "handlerJS_resume", model |-> model,
                   resume |-> tree.resume]
             args == Append(tree.params.items, k)
         IN IF Key(tree.name) \in DOMAIN model
              THEN Call(model[Key(tree.name)], args, Called(w, tree.name, args))
              ELSE Ret(operationJS(tree.name, tree.params, k), w)

\* a continuation that resumes with true whatever it is given
handle_resume_stuck(f, x, w) ==
  AndThen(Apply(f.resume, Bool(TRUE), Resumed(w, f.resume, Bool(TRUE))),
          LAMBDA v, w1 : handle(v, f.model, w1))

\* x => handle(resume(x), model)
handle_resume(f, x, w) ==
  CHOOSE y \in {IF IsThrow(r.v) THEN r ELSE handle(r.v, f.model, r.w) :
                  r \in {Call(f.resume, <<x>>, Resumed(w, f.resume, x))}} :
    TRUE

\* a handler that calls the entry itself and does not hand it to go
handle_direct(tree, model, w) ==
  IF ~IsOperation(tree)
    THEN IF "return" \in DOMAIN model
           THEN Apply(model["return"], tree, w)
           ELSE Ret(tree, w)
    ELSE LET k == [fn |-> "handle_resume", model |-> model,
                   resume |-> tree.resume]
             args == Append(tree.params.items, k)
         IN IF Key(tree.name) \in DOMAIN model
              THEN Call(model[Key(tree.name)], args, Called(w, tree.name, args))
              ELSE Ret(operationJS(tree.name, tree.params, k), w)

\* the handler that hands model[name] to go
handle(tree, model, w) ==
  IF ~IsOperation(tree)
    THEN IF "return" \in DOMAIN model
           THEN Apply(model["return"], tree, w)
           ELSE Ret(tree, w)
    ELSE LET k == [fn |-> "handle_resume", model |-> model,
                   resume |-> tree.resume]
             args == Append(tree.params.items, k)
         IN IF Key(tree.name) \in DOMAIN model
              THEN go(model[Key(tree.name)], args, <<>>, w)
              ELSE Ret(operationJS(tree.name, tree.params, k), w)

----------------------------------------------------------------------------
(* Generators.  A generator function is [gen |-> <its name>, <captured>]; *)
(* calling it makes a generator object that has run nothing yet.  The     *)
(* object holds the answers passed to next() so far: the bodies of the    *)
(* listing are straight-line, so that history fixes the local variables.  *)

IsGenerator(v) == "genobj" \in DOMAIN v

NewGenerator(gf, args) ==
  [genobj |-> gf, args |-> args, recv |-> <<>>, started |-> FALSE,
   done |-> FALSE]

\* gen.next(x) that takes the argument of the first next() for an answer
GenNext_countsFirst(g, x, w) ==
  IF g.done
    THEN [res |-> [done |-> TRUE, value |-> undefined], g |-> g, w |-> w]
    ELSE With(Append(g.recv, x), LAMBDA recv :
         With(Call([fn |-> "Segment", gf |-> g.genobj, args |-> g.args],
                   recv, w), LAMBDA s :
           [res |-> [done |-> s.done, value |-> s.value],
            g |-> [g EXCEPT !.recv = recv, !.started = TRUE,
                            !.done = s.done],
            w |-> s.w]))

\* gen.next(x): the body runs from where it stopped to its next yield or
\* to its return; the argument of the first next() is dropped
GenNext(g, x, w) ==
  IF g.done
    THEN [res |-> [done |-> TRUE, value |-> undefined], g |-> g, w |-> w]
    ELSE CHOOSE y \in
           {[res |-> [done |-> s.done, value |-> s.value],
             g |-> [g EXCEPT !.recv = recv, !.started = TRUE,
                             !.done = s.done],
             w |-> s.w] :
              <<recv, s>> \in
                {<<r, Call([fn |-> "Segment", gf |-> g.genobj,
                           args |-> g.args], r, w)>> :
                   r \in {IF g.started THEN Append(g.recv, x) ELSE <<>>}}} :
           TRUE

\* a replay that feeds the newest answer first
ReplayFrom_newestFirst(st, history) ==
  IF history = <<>> \/ IsThrow(st.res.value) THEN st
  ELSE With(GenNext(st.g, history[Len(history)], st.w), LAMBDA st1 :
         ReplayFrom(st1, SubSeq(history, 1, Len(history) - 1)))

\* a replay that steps the generator once more than it has answers for
RECURSIVE ReplayFrom_extraStep(_, _)
ReplayFrom_extraStep(st, history) ==
  IF IsThrow(st.res.value) THEN st
  ELSE IF history = <<>> THEN GenNext(st.g, undefined, st.w)
  ELSE ReplayFrom_extraStep(GenNext(st.g, Head(history), st.w), Tail(history))

\* history.reduce((_, x) => gen.next(x), <the result of the first next()>)
ReplayFrom(st, history) ==
  IF history = <<>> \/ IsThrow(st.res.value) THEN st
  ELSE CHOOSE y \in {ReplayFrom(st1, Tail(history)) :
                      st1 \in {GenNext(st.g, Head(history), st.w)}} : TRUE

\* a continuation that does not record the answer it was given
go_then_forgetful(f, x, w) == go(f.gf, f.args, Append(f.history, undefined), w)

\* x => go(gf, args, history.concat(x))
go_then(f, x, w) == go(f.gf, f.args, Append(f.history, x), w)

\* the world after go called gf(...args)
Made(w, gf, args) ==
  [w EXCEPT !.made = Append(@, [gf |-> gf, args |-> args])]

go(gf, args, history, w) ==
  CHOOSE y \in
    {IF IsThrow(st.res.value) \/ st.res.done
       THEN Ret(st.res.value, st.w)
       ELSE bindJS(st.res.value,
                   [fn |-> "go_then", gf |-> gf, args |-> args,
                    history |-> history], st.w) :
       st \in {IF IsThrow(gen.v)
                 THEN [res |-> [done |-> TRUE, value |-> gen.v], w |-> gen.w]
               ELSE IF ~IsGenerator(gen.v)
                 THEN [res |-> [done |-> TRUE, value |-> Throw("TypeError")],
                       w |-> gen.w]
               ELSE CHOOSE r \in {ReplayFrom(first, history) :
                                    first \in {GenNext(gen.v, undefined,
                                                       gen.w)}} : TRUE :
                 gen \in {Call(gf, args, Made(w, gf, args))}}} : TRUE

----------------------------------------------------------------------------
(* The effects and handlers of the listing *)

print(x) == operationJS(Str("print"), Arr(<<x>>), undefined)

asynk(start) == operationJS(Str("asynk"), Arr(<<start>>), undefined)

\* print(x, resume) { resume(); console.info(x) }
run_print_after(args, w) ==
  AndThen(Call(Arg(args, 2), <<>>, w),
          LAMBDA v, w1 :
            Ret(undefined, [w1 EXCEPT !.console = Append(@, Arg(args, 1))]))

\* print(x, resume) { console.info(x); resume() }
run_print(args, w) ==
  AndThen(Call(Arg(args, 2), <<>>,
               [w EXCEPT !.console = Append(@, Arg(args, 1))]),
          LAMBDA v, w1 : Ret(undefined, w1))

\* asynk(start, resume) { return start(resume) }
run_asynk(args, w) == Call(Arg(args, 1), <<Arg(args, 2)>>, w)

RunModel == [print |-> [fn |-> "run_print"], asynk |-> [fn |-> "run_asynk"]]

run(tree, w) == handlerJS(RunModel, tree, w)

\* an exit that resumes from a timer
exit_resuming == asynk([fn |-> "wait_start", ms |-> 0])

\* exit() is asynk(() => {})
exit == asynk([fn |-> "exit_start"])

\* setTimeout(cb, ms): the world with one more pending timer
setTimeout(cb, ms, w) ==
  [w EXCEPT !.timers = Append(@, [cb |-> cb, due |-> w.now + ms])]

\* () => { k() }
wait_cb(f, w) ==
  AndThen(Call(f.k, <<>>, w), LAMBDA v, w1 : Ret(undefined, w1))

\* k => { k() }: a start function that resumes at once
wait_start_blocking(f, args, w) ==
  AndThen(Call(Arg(args, 1), <<>>, w), LAMBDA v, w1 : Ret(undefined, w1))

\* k => { setTimeout(() => { k() }, ms) }
wait_start(f, args, w) ==
  Ret(undefined, setTimeout([fn |-> "wait_cb", k |-> Arg(args, 1)], f.ms, w))

wait(ms) == asynk([fn |-> "wait_start", ms |-> ms])

\* () => k(true)
fork_cb(f, w) == Call(f.k, <<Bool(TRUE)>>, w)

\* k => { k(false) }: a start function that sets no timer
fork_start_once(args, w) ==
  AndThen(Call(Arg(args, 1), <<Bool(FALSE)>>, w),
          LAMBDA v, w1 : Ret(undefined, w1))

\* k => { setTimeout(() => k(true), 0); k(false) }
fork_start(args, w) ==
  AndThen(Call(Arg(args, 1), <<Bool(FALSE)>>,
               setTimeout([fn |-> "fork_cb", k |-> Arg(args, 1)], 0, w)),
          LAMBDA v, w1 : Ret(undefined, w1))

fork == asynk([fn |-> "fork_start"])

\* the object NA, which is identical to nothing but itself
NA == [na |-> TRUE]

\* x => { r2 = x; return r1 === NA ? exit() : [r1, r2] }
par_right(f, x, w) ==
  With([w EXCEPT !.heap[f.r2] = x], LAMBDA w1 :
    IF w1.heap[f.r1] = NA THEN Ret(exit, w1)
    ELSE Ret(Arr(<<w1.heap[f.r1], w1.heap[f.r2]>>), w1))

\* x => { r1 = x; return [r1, r2] }: a branch that does not look at r2
par_left_eager(f, x, w) ==
  With([w EXCEPT !.heap[f.r1] = x], LAMBDA w1 :
    Ret(Arr(<<w1.heap[f.r1], w1.heap[f.r2]>>), w1))

\* x => { r1 = x; return r2 === NA ? exit() : [r1, r2] }
par_left(f, x, w) ==
  With([w EXCEPT !.heap[f.r1] = x], LAMBDA w1 :
    IF w1.heap[f.r2] = NA THEN Ret(exit, w1)
    ELSE Ret(Arr(<<w1.heap[f.r1], w1.heap[f.r2]>>), w1))

\* a par that gives c1 to the flow true and c2 to the flow false
par_then_swapped(f, b, w) ==
  IF Truthy(b)
    THEN bindJS(f.c1, [fn |-> "par_left", r1 |-> f.r1, r2 |-> f.r2], w)
    ELSE bindJS(f.c2, [fn |-> "par_right", r1 |-> f.r1, r2 |-> f.r2], w)

\* b => { if (b) return bind(c2, ...) else return bind(c1, ...) }
par_then(f, b, w) ==
  IF Truthy(b)
    THEN bindJS(f.c2, [fn |-> "par_right", r1 |-> f.r1, r2 |-> f.r2], w)
    ELSE bindJS(f.c1, [fn |-> "par_left", r1 |-> f.r1, r2 |-> f.r2], w)

\* a par that runs the fork it has built
par_running(c1, c2, w) ==
  With(bindJS(fork,
              [fn |-> "par_then", r1 |-> Len(w.heap) + 1,
               r2 |-> Len(w.heap) + 2, c1 |-> c1, c2 |-> c2],
              [w EXCEPT !.heap = @ \o <<NA, NA>>]),
       LAMBDA t : Ret(t.v, run(t.v, t.w).w))

\* par(c1, c2): the variables r1 and r2 of this call are two new cells of
\* the heap
par(c1, c2, w) ==
  bindJS(fork,
         [fn |-> "par_then", r1 |-> Len(w.heap) + 1, r2 |-> Len(w.heap) + 2,
          c1 |-> c1, c2 |-> c2],
         [w EXCEPT !.heap = @ \o <<NA, NA>>])

\* the pending timer the host runs next: the earliest due, the first set
\* among those
NextTimer(w) ==
  CHOOSE i \in DOMAIN w.timers :
    \A j \in DOMAIN w.timers :
      \/ w.timers[i].due < w.timers[j].due
      \/ w.timers[i].due = w.timers[j].due /\ i <= j

\* the host runs the callback of the next timer
Fire(w) ==
  With(NextTimer(w), LAMBDA i :
    Call(w.timers[i].cb, <<>>,
         [w EXCEPT !.now = w.timers[i].due,
                   !.timers = [j \in 1..(Len(w.timers) - 1) |->
                                 IF j < i THEN w.timers[j]
                                 ELSE w.timers[j + 1]]]))

\* () => print(x)
hprintRev_then(f, w) == Ret(print(f.x), w)

\* print(x, resume) { return bind(resume(), () => print(x)) }
hprintRev_print(args, w) ==
  AndThen(Call(Arg(args, 2), <<>>, w),
          LAMBDA v, w1 : bindJS(v, [fn |-> "hprintRev_then",
                                    x |-> Arg(args, 1)], w1))

HprintRevModel == [print |-> [fn |-> "hprintRev_print"]]

hprintRev(tree, w) == handlerJS(HprintRevModel, tree, w)

fail == operationJS(Str("fail"), undefined, undefined)

decide == operationJS(Str("decide"), undefined, undefined)

\* b => (b ? m : n)
choose_then(f, b, w) == Ret(IF Truthy(b) THEN f.m ELSE f.n, w)

choose(m, n) == bindJS(decide, [fn |-> "choose_then", m |-> m, n |-> n], W0).v

\* chooseIn(m, n) for numbers m and n
RECURSIVE chooseIn(_, _)
chooseIn(m, n) ==
  IF m > n THEN fail ELSE choose(Num(m), chooseIn(m + 1, n))

\* Math.floor(sqrt) === sqrt
isSquare(x) == \E c \in 0..x : c * c = x

\* Math.sqrt(x) of a square
Sqrt(x) == CHOOSE c \in 0..x : c * c = x

\* fail: () => resume(true)
backtrack_fail(f, args, w) == Call(f.resume, <<Bool(TRUE)>>, w)

\* decide(resume) that tries true first
backtrack_decide_trueFirst(args, w) ==
  AndThen(Call(Arg(args, 1), <<Bool(TRUE)>>, w),
          LAMBDA t, w1 :
            handlerJS([fail |-> [fn |-> "backtrack_retry",
                                 resume |-> Arg(args, 1)]], t, w1))

\* decide(resume) { return handle(resume(false), {fail: () => resume(true)}) }
backtrack_decide(args, w) ==
  CHOOSE y \in
    {IF IsThrow(t.v) THEN t
     ELSE handlerJS([fail |-> [fn |-> "backtrack_fail",
                               resume |-> Arg(args, 1)]], t.v, t.w) :
       t \in {Call(Arg(args, 1), <<Bool(FALSE)>>, w)}} : TRUE

BacktrackModel == [decide |-> [fn |-> "backtrack_decide"]]

backtrack(tree, w) == handlerJS(BacktrackModel, tree, w)

PickMaxModel == [decide |-> [gen |-> "pickMax_decide"]]

pickMax(tree, w) == handle(tree, PickMaxModel, w)

get == operationJS(Str("get"), undefined, undefined)

put(s) == operationJS(Str("put"), Arr(<<s>>), undefined)

\* _ => x
state_return_fn(f, s, w) == Ret(f.x, w)

\* return: x => _ => x
state_return(args, w) == Ret([fn |-> "state_return_fn", x |-> Arg(args, 1)], w)

\* a get that answers with the first state any get was ever applied to,
\* kept in a variable outside the function
state_get_fn_sticky(f, s, w) ==
  With(IF w.heap = <<>> THEN s ELSE w.heap[1], LAMBDA s0 :
    AndThen(Call(f.resume, <<s0>>, [w EXCEPT !.heap = <<s0>>]),
            LAMBDA t, w1 : ap(t, <<s0>>, w1)))

\* s => ap(resume(s), s)
state_get_fn(f, s, w) ==
  AndThen(Call(f.resume, <<s>>, w), LAMBDA t, w1 : ap(t, <<s>>, w1))

\* get: resume => s => ap(resume(s), s)
state_get(args, w) == Ret([fn |-> "state_get_fn", resume |-> Arg(args, 1)], w)

\* _ => ap(resume(), _): a put that passes on the state it was applied to
state_put_fn_keeps(f, s, w) ==
  AndThen(Call(f.resume, <<>>, w), LAMBDA t, w1 : ap(t, <<s>>, w1))

\* _ => ap(resume(), s)
state_put_fn(f, s, w) ==
  AndThen(Call(f.resume, <<>>, w), LAMBDA t, w1 : ap(t, <<f.s>>, w1))

\* put: (s, resume) => _ => ap(resume(), s)
state_put(args, w) ==
  Ret([fn |-> "state_put_fn", s |-> Arg(args, 1), resume |-> Arg(args, 2)], w)

StateModel ==
  [return |-> [fn |-> "state_return"], get |-> [fn |-> "state_get"],
   put |-> [fn |-> "state_put"]]

state(tree, w) == handlerJS(StateModel, tree, w)

\* zero: () => 0
interpreter_zero(args, w) == Ret(Num(0), w)

\* add(resume) { return resume(true) + resume(false) }
interpreter_add(args, w) ==
  AndThen(Call(Arg(args, 1), <<Bool(TRUE)>>, w),
          LAMBDA x, w1 :
            AndThen(Call(Arg(args, 1), <<Bool(FALSE)>>, w1),
                    LAMBDA y, w2 : Ret(Plus(x, y), w2)))

\* return(x) { return [x, ""] }
hprintCollect_return(args, w) == Ret(Arr(<<Arg(args, 1), Str("")>>), w)

\* r[i] for the i-th element, counted from 1
Item(r, i) == IF "items" \in DOMAIN r THEN Arg(r.items, i) ELSE undefined

\* r => [r[0], x + r[1]]
hprintCollect_then(f, r, w) ==
  IF r = undefined THEN Ret(Throw("TypeError"), w)
  ELSE Ret(Arr(<<Item(r, 1), Plus(f.x, Item(r, 2))>>), w)

\* print(x, resume) { return bind(resume(), r => [r[0], x + r[1]]) }
hprintCollect_print(args, w) ==
  AndThen(Call(Arg(args, 2), <<>>, w),
          LAMBDA v, w1 : bindJS(v, [fn |-> "hprintCollect_then",
                                    x |-> Arg(args, 1)], w1))

HprintCollectModel ==
  [return |-> [fn |-> "hprintCollect_return"],
   print |-> [fn |-> "hprintCollect_print"]]

InterpreterModel ==
  [zero |-> [fn |-> "interpreter_zero"], add |-> [fn |-> "interpreter_add"]]

\* the variable x of a routine that does `x = yield get` at each of its
\* gets: the answer of the last get so far, undefined before the first
LastGet(ops, recv) ==
  LET gets == {i \in 1..Len(recv) : ops[i] = "get"}
  IN IF gets = {} THEN undefined
     ELSE recv[CHOOSE i \in gets : \A j \in gets : j <= i]

\* What a generator function does between two suspension points: the code
\* it runs once it has received the answers recv, up to its next yield
\* (done FALSE, value the yielded program) or its return (done TRUE).
Segment(gf, args, recv, w) ==
  LET n == Len(recv)
      Yield(v) == [done |-> FALSE, value |-> v, w |-> w]
      Return(v) == [done |-> TRUE, value |-> v, w |-> w]
  IN CASE gf.gen = "abc" ->
            IF n = 0 THEN Yield(print(Str("A")))
            ELSE IF n = 1 THEN Yield(print(Str("B")))
            ELSE IF n = 2 THEN Yield(print(Str("C")))
            ELSE Return(undefined)
       [] gf.gen = "pf" ->
            IF n = 0 THEN Yield(choose(Num(15), Num(30)))
            ELSE IF n = 1 THEN Yield(choose(Num(5), Num(10)))
            ELSE Return(Minus(recv[1], recv[2]))
       [] gf.gen = "pickMax_decide" ->
            IF n = 0
              THEN CHOOSE y \in {[done |-> FALSE, value |-> r.v, w |-> r.w] :
                                  r \in {Call(Arg(args, 1), <<Bool(TRUE)>>, w)}} :
                     TRUE
            ELSE IF n = 1
              THEN CHOOSE y \in {[done |-> FALSE, value |-> r.v, w |-> r.w] :
                                  r \in {Call(Arg(args, 1), <<Bool(FALSE)>>, w)}} :
                     TRUE
            ELSE Return(MathMax(recv[1], recv[2]))
       [] gf.gen = "pythagorean" ->
            \* arithmetic on an answer that is no number never ends in
            \* chooseIn: the call stack overflows
            IF n = 0
              THEN Yield(chooseIn(Arg(args, 1).num, Arg(args, 2).num - 1))
            ELSE IF n = 1
              THEN IF IsNum(recv[1])
                     THEN Yield(chooseIn(recv[1].num + 1, Arg(args, 2).num))
                     ELSE Yield(Throw("RangeError"))
            ELSE IF n = 2
              THEN IF IsNum(recv[1]) /\ IsNum(recv[2])
                        /\ isSquare(recv[1].num * recv[1].num
                                      + recv[2].num * recv[2].num)
                     THEN Return(Arr(<<recv[1], recv[2],
                                       Num(Sqrt(recv[1].num * recv[1].num
                                                + recv[2].num * recv[2].num))>>))
                     ELSE Yield(fail)
            ELSE Return(undefined)
       [] gf.gen = "ps" ->
            IF n = 0 THEN Yield(get)
            ELSE IF n = 1 THEN Yield(wait(3000))
            ELSE IF n = 2 THEN Yield(put(Plus(recv[1], Num(10))))
            ELSE IF n = 3 THEN Yield(get)
            ELSE IF n = 4 THEN Yield(print(recv[4]))
            ELSE Return(undefined)
       [] gf.gen = "stateful" ->
            IF n < Len(gf.ops)
              THEN Yield(IF gf.ops[n + 1] = "get" THEN get
                         ELSE IF gf.ops[n + 1] = "put7" THEN put(Num(7))
                         ELSE put(Plus(LastGet(gf.ops, recv), Num(10))))
              ELSE With(Call(gf.ret, <<Arr(recv)>>, w), LAMBDA r :
                     [done |-> TRUE, value |-> r.v, w |-> r.w])
       [] gf.gen = "traced" ->
            \* console.log(n) stands before each yield and before the return
            IF n < Len(gf.yields)
              THEN [done |-> FALSE, value |-> gf.yields[n + 1],
                    w |-> [w EXCEPT !.console = Append(@, Num(n))]]
              ELSE [done |-> TRUE, value |-> Arr(recv),
                    w |-> [w EXCEPT !.console = Append(@, Num(n))]]
       [] gf.gen = "routine" ->
            IF n < Len(gf.yields) THEN Yield(gf.yields[n + 1])
            ELSE With(Call(gf.ret, <<Arr(recv)>>, w), LAMBDA r :
                   [done |-> TRUE, value |-> r.v, w |-> r.w])

abc == go([gen |-> "abc"], <<>>, <<>>, W0).v

pf == go([gen |-> "pf"], <<>>, <<>>, W0).v

ps == go([gen |-> "ps"], <<>>, <<>>, W0).v

----------------------------------------------------------------------------
(* The programs, continuations and models the operations are applied to *)

\* zero() and add(left, right) of the post, in the tagged representation
zero == operation(Str("zero"), undefined, undefined)

add(left, right) ==
  operation(Str("add"), Arr(<<>>), [fn |-> "choose_then", m |-> left, n |-> right])

\* xs => xs[xs.length - 1]
K_last(xs, w) ==
  Ret(IF "items" \in DOMAIN xs /\ xs.items # <<>>
        THEN xs.items[Len(xs.items)] ELSE undefined, w)

\* ([x, y]) => x - y
K_minus(xs, w) == Ret(Minus(Item(xs, 1), Item(xs, 2)), w)

\* (x, y) => x - y
F_minus(args, w) == Ret(Minus(Arg(args, 1), Arg(args, 2)), w)

\* (...xs) => xs
F_list(args, w) == Ret(Arr(args), w)

\* ([f, ...xs]) => f(...xs)
K_applyHead(xs, w) ==
  IF "items" \in DOMAIN xs /\ xs.items # <<>>
    THEN Call(Head(xs.items), Tail(xs.items), w)
    ELSE Ret(Throw("TypeError"), w)

\* a => bind(f(a), g), the right-hand side of the associativity law
assoc_then(f, a, w) ==
  AndThen(Apply(f.f, a, w),
          LAMBDA v, w1 : IF f.lang = "ts" THEN bind(v, f.g, w1)
                         ELSE bindJS(v, f.g, w1))

\* the hand-written nesting bind(P1, x1 => bind(P2, x2 => ... r([x1, ..]))),
\* from the point where the answers recv are known
nest_then(f, x, w) == nest(f.yields, f.ret, Append(f.recv, x), w)

nest(yields, ret, recv, w) ==
  IF Len(recv) = Len(yields) THEN Call(ret, <<Arr(recv)>>, w)
  ELSE bindJS(yields[Len(recv) + 1],
              [fn |-> "nest_then", yields |-> yields, ret |-> ret,
               recv |-> recv], w)

----------------------------------------------------------------------------
(* calling a function value *)

Call(f, args, w) ==
  CASE ~IsFunction(f) -> Ret(Throw("TypeError"), w)
    [] "gen" \in DOMAIN f -> Ret(NewGenerator(f, args), w)
    [] f.fn = "pure" -> Ret(pure(Arg(args, 1)), w)
    [] f.fn = "id" -> Ret(Arg(args, 1), w)
    [] f.fn = "bind_resume" -> bind_resume(f, Arg(args, 1), w)
    [] f.fn = "evaluate_resume" -> evaluate_resume(f, Arg(args, 1), w)
    [] f.fn = "bindJS_resume" -> bindJS_resume(f, Arg(args, 1), w)
    [] f.fn = "handlerJS_resume" -> handlerJS_resume(f, Arg(args, 1), w)
    [] f.fn = "handle_resume" -> handle_resume(f, Arg(args, 1), w)
    [] f.fn = "go_then" -> go_then(f, Arg(args, 1), w)
    [] f.fn = "run_print" -> run_print(args, w)
    [] f.fn = "run_asynk" -> run_asynk(args, w)
    [] f.fn = "exit_start" -> Ret(undefined, w)
    [] f.fn = "hprintRev_then" -> hprintRev_then(f, w)
    [] f.fn = "hprintRev_print" -> hprintRev_print(args, w)
    [] f.fn = "choose_then" -> choose_then(f, Arg(args, 1), w)
    [] f.fn = "interpreter_zero" -> interpreter_zero(args, w)
    [] f.fn = "interpreter_add" -> interpreter_add(args, w)
    [] f.fn = "hprintCollect_return" -> hprintCollect_return(args, w)
    [] f.fn = "hprintCollect_then" -> hprintCollect_then(f, Arg(args, 1), w)
    [] f.fn = "hprintCollect_print" -> hprintCollect_print(args, w)
    [] f.fn = "K_const" -> Ret(f.value, w)
    [] f.fn = "K_log" -> Ret(log(Arg(args, 1)), w)
    [] f.fn = "K_print" -> Ret(print(Arg(args, 1)), w)
    [] f.fn = "K_last" -> K_last(Arg(args, 1), w)
    [] f.fn = "K_minus" -> K_minus(Arg(args, 1), w)
    [] f.fn = "assoc_then" -> assoc_then(f, Arg(args, 1), w)
    [] f.fn = "state_return_fn" -> state_return_fn(f, Arg(args, 1), w)
    [] f.fn = "state_return" -> state_return(args, w)
    [] f.fn = "state_get_fn" -> state_get_fn(f, Arg(args, 1), w)
    [] f.fn = "state_get" -> state_get(args, w)
    [] f.fn = "state_put_fn" -> state_put_fn(f, Arg(args, 1), w)
    [] f.fn = "state_put" -> state_put(args, w)
    [] f.fn = "backtrack_fail" -> backtrack_fail(f, args, w)
    [] f.fn = "backtrack_retry" -> Call(f.resume, <<Bool(FALSE)>>, w)
    [] f.fn = "backtrack_decide" -> backtrack_decide(args, w)
    [] f.fn = "wait_cb" -> wait_cb(f, w)
    [] f.fn = "wait_start" -> wait_start(f, args, w)
    [] f.fn = "fork_cb" -> fork_cb(f, w)
    [] f.fn = "fork_start" -> fork_start(args, w)
    [] f.fn = "par_right" -> par_right(f, Arg(args, 1), w)
    [] f.fn = "par_left" -> par_left(f, Arg(args, 1), w)
    [] f.fn = "par_then" -> par_then(f, Arg(args, 1), w)
    [] f.fn = "all_cons" -> all_cons(f, Arg(args, 1), w)
    [] f.fn = "all_then" -> all_then(f, Arg(args, 1), w)
    [] f.fn = "ap_apply" -> ap_apply(f, Arg(args, 1), w)
    [] f.fn = "ap_then" -> ap_then(f, Arg(args, 1), w)
    [] f.fn = "F_minus" -> F_minus(args, w)
    [] f.fn = "F_list" -> F_list(args, w)
    [] f.fn = "K_applyHead" -> K_applyHead(Arg(args, 1), w)
    [] f.fn = "nest_then" -> nest_then(f, Arg(args, 1), w)
    [] f.fn = "Segment" -> Segment(f.gf, f.args, args, w)
    [] f.fn = "evaluate" -> evaluate(f.model, Arg(args, 1), w)
    [] f.fn = "handlerJS" -> handlerJS(f.model, Arg(args, 1), w)
    [] f.fn = "handle" -> handle(Arg(args, 1), f.model, w)
    [] f.fn = "bind" -> bind(Arg(args, 1), Arg(args, 2), w)
    [] f.fn = "bindJS" -> bindJS(Arg(args, 1), Arg(args, 2), w)
    [] f.fn = "go" ->
         go(Arg(args, 1), IF Len(args) > 1 THEN args[2].items ELSE <<>>,
            <<>>, w)
    [] f.fn = "nest" -> nest(Arg(args, 1).items, Arg(args, 2), <<>>, w)
    [] f.fn = "all" -> all(Arg(args, 1).items, w)
    [] f.fn = "seq" -> seq(Arg(args, 1).items, w)
    [] f.fn = "ap" -> ap(Arg(args, 1), Arg(args, 2).items, w)
    [] f.fn = "par" -> par(Arg(args, 1), Arg(args, 2), w)
    [] f.fn = "run" -> run(Arg(args, 1), w)
    [] f.fn = "hprintRev" -> hprintRev(Arg(args, 1), w)
    [] f.fn = "backtrack" -> backtrack(Arg(args, 1), w)
    [] f.fn = "state" -> state(Arg(args, 1), w)

----------------------------------------------------------------------------
(* Generators driven as coroutines (the posts).  A generator object is a   *)
(* cell of the heap of a machine: its code, where it stopped, its local    *)
(* variables and the fields the runtimes hang on it.  Every call in these  *)
(* runtimes is the last thing its caller does, so a machine holds, besides *)
(* the heap, the one call that is pending; a step runs the called function *)
(* up to the call it ends with.                                            *)

null == [null |-> TRUE]

\* x == null
IsNullish(x) == x = null \/ x = undefined

Ref(i) == [ref |-> i]

\* isGenerator(x)
isGenerator(x) == "ref" \in DOMAIN x

\* typeof x === "function"
IsCallable(x) == "fn" \in DOMAIN x

\* a generator object that has run nothing yet
NewGen(code, locals) ==
  [code |-> code, pc |-> 0, done |-> FALSE, vars |-> locals,
   _return |-> undefined, _handler |-> undefined, _reset |-> FALSE]

\* no call is pending: the machine is back in the host's event loop
Idle == [idle |-> TRUE]

\* the machine in which the host calls f(...args)
Machine(heap, f, args) ==
  [heap |-> heap, queue |-> <<>>, timers |-> <<>>, now |-> 0,
   console |-> <<>>, delivered |-> <<>>, error |-> undefined,
   pending |-> [f |-> f, args |-> args]]

\* the reference the next generator object gets
Fresh(m) == Ref(Len(m.heap) + 1)

Alloc(m, cell) == [m EXCEPT !.heap = Append(@, cell)]

\* return f(...args)
TailCall(m, f, args) == [m EXCEPT !.pending = [f |-> f, args |-> args]]

Return(m) == [m EXCEPT !.pending = Idle]

\* the result of gen.next(): a value yielded at a suspension point, or the
\* value returned
Yielded(m, g, pc, value) ==
  [done |-> FALSE, value |-> value, m |-> [m EXCEPT !.heap[g.ref].pc = pc]]

Returned(m, g, value) ==
  [done |-> TRUE, value |-> value, m |-> [m EXCEPT !.heap[g.ref].done = TRUE]]

\* console.log(...xs)
Log(m, xs) == [m EXCEPT !.console = Append(@, xs)]

----------------------------------------------------------------------------
(* Cooperative scheduling: generators driven in continuation-passing style *)

\* sleep(millis) is next => setTimeout(next, millis)
sleep(millis) == [fn |-> "sleep_fn", millis |-> millis]

sleep_fn(m, f, args) ==
  Return([m EXCEPT !.timers = Append(@, [cb |-> Arg(args, 1),
                                        due |-> m.now + f.millis])])

\* callcc(genFunc)
callcc(genFunc) == [fn |-> "callcc_fn", genFunc |-> genFunc]

\* function(capturedCont) { runGenerator(genFunc(jumpToCallccPos), null,
\* capturedCont) }
callcc_fn(m, f, args) ==
  TailCall(Alloc(m, NewGen(f.genFunc,
                           [k |-> [fn |-> "jumpToCallccPos",
                                   capturedCont |-> Arg(args, 1)]])),
           [fn |-> "runGenerator_cps"], <<Fresh(m), null, Arg(args, 1)>>)

\* jumpToCallccPos(value) is next => capturedCont(value)
jumpToCallccPos(k, value) ==
  [fn |-> "jump_fn", capturedCont |-> k.capturedCont, value |-> value]

jump_fn(m, f, args) == TailCall(m, f.capturedCont, <<f.value>>)

\* fork(gen)
fork_process(gen) == [fn |-> "fork_fn", gen |-> gen]

\* next => { processQueue.push((function*() {...})()); next() }
fork_fn(m, f, args) ==
  TailCall([Alloc(m, NewGen("forked", [gen |-> f.gen]))
              EXCEPT !.queue = Append(@, Fresh(m))],
           Arg(args, 1), <<>>)

pause == callcc("pause")

\* processQueue.shift() that takes the process pushed last
dequeue_lifo(m, g) ==
  IF m.heap[g.ref].pc = 0 /\ m.queue # <<>>
    THEN Yielded([m EXCEPT !.queue = SubSeq(@, 1, Len(@) - 1)], g, 1,
                 m.queue[Len(m.queue)])
    ELSE Returned(m, g, undefined)

\* function* dequeue()
dequeue(m, g) ==
  IF m.heap[g.ref].pc = 0 /\ m.queue # <<>>
    THEN Yielded([m EXCEPT !.queue = Tail(@)], g, 1, Head(m.queue))
    ELSE Returned(m, g, undefined)

\* gen.next(arg) of the generators of the scheduler: the process fork
\* pushes, the body of pause, dequeue
Scheduler(m, g, arg) ==
  LET c == m.heap[g.ref]
  IN CASE c.code = "forked" ->
            IF c.pc = 0 THEN Yielded(m, g, 1, c.vars.gen)
            ELSE IF c.pc = 1
              THEN Yielded(Alloc(m, NewGen("dequeue", <<>>)), g, 2, Fresh(m))
            ELSE Returned(m, g, undefined)
       [] c.code = "pause" ->
            IF c.pc = 0
              THEN Yielded(Alloc([m EXCEPT !.queue =
                                    Append(@, jumpToCallccPos(c.vars.k,
                                                              undefined))],
                                 NewGen("dequeue", <<>>)),
                           g, 1, Fresh(m))
              ELSE Returned(m, g, undefined)
       [] c.code = "dequeue" -> dequeue(m, g)

\* gen.next(arg) of main and of proc(id, n)
Processes(m, g, arg) ==
  LET c == m.heap[g.ref]
  IN CASE c.code = "main" ->
            IF c.pc = 0
              THEN Yielded(Alloc(m, NewGen("proc", [id |-> Str("1"),
                                                   n |-> c.vars.n1, i |-> 0])),
                           g, 1, fork_process(Fresh(m)))
            ELSE IF c.pc = 1
              THEN Yielded(Alloc(m, NewGen("proc", [id |-> Str("2"),
                                                   n |-> c.vars.n2, i |-> 0])),
                           g, 2, fork_process(Fresh(m)))
            ELSE IF c.pc = 2
              THEN Yielded(Alloc(m, NewGen("dequeue", <<>>)), g, 3, Fresh(m))
            ELSE Returned(Log(m, <<Str("end main")>>), g, undefined)
       [] c.code = "proc" ->
            IF c.pc = 0
              THEN IF 0 <= c.vars.n THEN Yielded(m, g, 1, sleep(1000))
                   ELSE Returned(m, g, undefined)
            ELSE IF c.pc = 1
              THEN Yielded(Log(m, <<c.vars.id, Num(c.vars.i)>>), g, 2, pause)
            ELSE IF c.vars.i + 1 <= c.vars.n
              THEN Yielded([m EXCEPT !.heap[g.ref].vars.i = @ + 1], g, 1,
                           sleep(1000))
              ELSE Returned(m, g, undefined)

RECURSIVE GenResume(_, _, _)

\* function continuation(result) { runGenerator(gen, result, next) }
continuation(gen, next) == [fn |-> "continuation", gen |-> gen, next |-> next]

\* runGenerator(gen, arg, next), the driver in continuation-passing style
runGenerator_cps(m, gen, arg, next) ==
  With(GenResume(m, gen, arg), LAMBDA r :
    IF r.done THEN TailCall(r.m, next, <<r.value>>)
    ELSE IF isGenerator(r.value)
      THEN TailCall(r.m, [fn |-> "runGenerator_cps"],
                    <<r.value, null, continuation(gen, next)>>)
    ELSE IF IsCallable(r.value)
      THEN TailCall(r.m, r.value, <<continuation(gen, next)>>)
    ELSE TailCall(r.m, [fn |-> "runGenerator_cps"], <<gen, r.value, next>>))

----------------------------------------------------------------------------
(* The call stack as a linked list of generators: gen._return is the      *)
(* parent frame; withHandler and perform, reset and shift                 *)

\* x._return, x._handler and x._reset: those of the generator object, and
\* undefined on a function
FieldOf(m, x, field) ==
  IF isGenerator(x) THEN m.heap[x.ref][field] ELSE undefined

\* genFunc(...), the generator object a generator function makes
Instance(genFunc, locals) == NewGen(genFunc.genfn, locals)

\* runGenerator(gen, arg), the driver that follows the _return links
runGenerator(m, gen, arg) ==
  IF ~isGenerator(gen) THEN Return([m EXCEPT !.error = Str("TypeError")])
  ELSE With(GenResume(m, gen, arg), LAMBDA r :
    IF r.done
      THEN IF isGenerator(FieldOf(r.m, gen, "_return"))
             THEN TailCall(r.m, [fn |-> "runGenerator"],
                           <<FieldOf(r.m, gen, "_return"), r.value>>)
           ELSE IF IsCallable(FieldOf(r.m, gen, "_return"))
             THEN TailCall(r.m, FieldOf(r.m, gen, "_return"), <<r.value>>)
           ELSE Return(r.m)
    ELSE IF isGenerator(r.value)
      THEN TailCall([r.m EXCEPT !.heap[r.value.ref]._return = gen],
                    [fn |-> "runGenerator"], <<r.value, null>>)
    ELSE IF IsCallable(r.value) THEN TailCall(r.m, r.value, <<gen>>)
    ELSE Return(r.m))

\* start(gen, onDone)
start(m, gen, onDone) ==
  TailCall([m EXCEPT !.heap[gen.ref]._return = onDone],
           [fn |-> "runGenerator"], <<gen, null>>)

\* a plain function called with one argument: collectLogs.return is
\* return(x) { return [x, ""]; }
CallPlain(f, x) == CASE f.fn = "collectLogs_return" -> Arr(<<x, Str("")>>)

\* withHandler(handler, gen): the generator object of withHandlerFrame
withHandler(handler, gen) ==
  [NewGen("withHandlerFrame", [gen |-> gen]) EXCEPT !._handler = handler]

\* function* withHandlerFrame(); a return clause is called like any
\* function, and what it returns is yielded
withHandlerFrame(m, g, arg) ==
  LET c == m.heap[g.ref]
  IN IF c.pc = 0 THEN Yielded(m, g, 1, c.vars.gen)
     ELSE IF c.pc = 1 /\ "return" \in DOMAIN c._handler
       THEN IF "genfn" \in DOMAIN c._handler["return"]
              THEN Yielded(Alloc(m, Instance(c._handler["return"],
                                             [x |-> arg])),
                           g, 2, Fresh(m))
              ELSE Yielded(m, g, 2, CallPlain(c._handler["return"], arg))
     ELSE Returned(m, g, arg)

\* withHandlerGen._handler != null && _handler.hasOwnProperty(type)
Handles(m, x, type) ==
  /\ ~IsNullish(FieldOf(m, x, "_handler"))
  /\ type \in DOMAIN FieldOf(m, x, "_handler")

\* the while loop of perform: from the performing generator up the
\* _return links to the first frame that handles type, or to the last
\* frame
RECURSIVE Closest(_, _, _)
Closest(m, x, type) ==
  IF Handles(m, x, type) THEN x
  ELSE IF IsNullish(FieldOf(m, x, "_return")) THEN x
  ELSE Closest(m, FieldOf(m, x, "_return"), type)

\* perform(type, data)
perform(type, data) == [fn |-> "perform_fn", type |-> type, data |-> data]

\* resume(value), for the resume that perform hands to the handler
resumeWith(k, value) ==
  [fn |-> "resume_fn", withHandlerGen |-> k.withHandlerGen,
   performGen |-> k.performGen, value |-> value]

\* a resume that leaves the _return of the withHandler frame as it was
resume_fn_noRelink(m, f, args) ==
  TailCall(m, [fn |-> "runGenerator"], <<f.performGen, f.value>>)

\* currentGen => { withHandlerGen._return = currentGen;
\* runGenerator(performGen, value) }
resume_fn(m, f, args) ==
  TailCall([m EXCEPT !.heap[f.withHandlerGen.ref]._return = Arg(args, 1)],
           [fn |-> "runGenerator"], <<f.performGen, f.value>>)

\* performGen => { ... }
perform_fn(m, f, args) ==
  With(Closest(m, Arg(args, 1), f.type), LAMBDA withHandlerGen :
    IF ~Handles(m, withHandlerGen, f.type)
      THEN Return([m EXCEPT !.error =
                     Str("Unhandled Effect " \o f.type \o "!")])
      ELSE TailCall(
             Alloc(m, [Instance(FieldOf(m, withHandlerGen,
                                        "_handler")[f.type],
                                [data |-> f.data,
                                 resume |->
                                   [fn |-> "resume",
                                    withHandlerGen |-> withHandlerGen,
                                    performGen |-> Arg(args, 1)],
                                 clause |-> FieldOf(m, withHandlerGen,
                                                    "_handler")[f.type]])
                         EXCEPT !._return =
                           FieldOf(m, withHandlerGen, "_return")]),
             [fn |-> "runGenerator"], <<Fresh(m), null>>))

\* reset(genFunc)
reset(genFunc) == [fn |-> "reset_fn", genFunc |-> genFunc]

\* parentGen => { gen._return = parentGen; gen._reset = true; ... }
reset_fn(m, f, args) ==
  TailCall(Alloc(m, [Instance(f.genFunc, f.genFunc)
                       EXCEPT !._return = Arg(args, 1), !._reset = TRUE]),
           [fn |-> "runGenerator"], <<Fresh(m), null>>)

\* the while loop of shift: the closest frame marked by reset
RECURSIVE ClosestReset(_, _)
ClosestReset(m, x) ==
  IF IsNullish(x) THEN Throw("TypeError")
  ELSE IF FieldOf(m, x, "_reset") = TRUE THEN x
  ELSE ClosestReset(m, FieldOf(m, x, "_return"))

\* shift(genFunc)
shift(genFunc) == [fn |-> "shift_fn", genFunc |-> genFunc]

\* delimitedCont(value)
delimitedCont(k, value) ==
  [fn |-> "delimitedCont_fn", resetGen |-> k.resetGen,
   parentGen |-> k.parentGen, value |-> value]

\* a continuation that leaves the _return of the reset frame as it was
delimitedCont_fn_noRelink(m, f, args) ==
  TailCall(m, [fn |-> "runGenerator"], <<f.parentGen, f.value>>)

\* nextGen => { resetGen._return = nextGen; runGenerator(parentGen, value) }
delimitedCont_fn(m, f, args) ==
  TailCall([m EXCEPT !.heap[f.resetGen.ref]._return = Arg(args, 1)],
           [fn |-> "runGenerator"], <<f.parentGen, f.value>>)

\* parentGen => { ... }
shift_fn(m, f, args) ==
  With(ClosestReset(m, Arg(args, 1)), LAMBDA resetGen :
    IF IsThrow(resetGen) THEN Return([m EXCEPT !.error = Str("TypeError")])
    ELSE TailCall(
           Alloc(m, [Instance(f.genFunc,
                              [k |-> [fn |-> "delimitedCont",
                                      resetGen |-> resetGen,
                                      parentGen |-> Arg(args, 1)],
                               p |-> f.genFunc])
                       EXCEPT !._return = FieldOf(m, resetGen, "_return")]),
           [fn |-> "runGenerator"], <<Fresh(m), null>>))

\* the generator functions of the handler examples: a program of three
\* frames under two handlers, and the clauses of the handlers
Handlers(m, g, arg) ==
  LET c == m.heap[g.ref]
  IN CASE c.code = "outer" ->
            IF c.pc = 0
              THEN Yielded(Alloc(Alloc(m, NewGen("middle", c.vars)),
                                 withHandler(c.vars.h1, Fresh(m))),
                           g, 1, Ref(Len(m.heap) + 2))
              ELSE Returned(m, g, Arr(<<Str("outer"), arg>>))
       [] c.code = "middle" ->
            IF c.pc = 0
              THEN Yielded(Alloc(Alloc(m, NewGen("inner", c.vars)),
                                 withHandler(c.vars.h2, Fresh(m))),
                           g, 1, Ref(Len(m.heap) + 2))
              ELSE Returned(m, g, Arr(<<Str("middle"), arg>>))
       [] c.code = "inner" ->
            IF c.pc = 0
              THEN Yielded(m, g, 1, perform(c.vars.type, Str("data")))
              ELSE Returned(m, g, Arr(<<Str("inner"), arg>>))
       [] c.code = "clause" ->
            IF c.pc = 0
              THEN IF c.vars.clause.resumes
                     THEN Yielded(Log(m, <<Num(c.vars.clause.frame), c.vars.data>>),
                                  g, 1, resumeWith(c.vars.resume, Str("answer")))
                     ELSE Returned(Log(m, <<Num(c.vars.clause.frame), c.vars.data>>),
                                   g, Arr(<<Str("handled"),
                                            Num(c.vars.clause.frame)>>))
              ELSE Returned(m, g, Arr(<<Str("resumed"),
                                        Num(c.vars.clause.frame), arg>>))

\* collectLogs: return is a method, log a generator method
collectLogs ==
  [return |-> [fn |-> "collectLogs_return"],
   log |-> [genfn |-> "collectLogs_log"]]

\* main, parent and child of the collected logs, child performing one log
\* for each of its messages and returning 10, and the log clause
\* const [x, acc] = yield resume(); return [x, `${msg} {acc}`]
Logs(m, g, arg) ==
  LET c == m.heap[g.ref]
  IN CASE c.code = "main_logs" ->
            IF c.pc = 0
              THEN Yielded(Alloc(Alloc(m, NewGen("parent", c.vars)),
                                 withHandler(collectLogs, Fresh(m))),
                           g, 1, Ref(Len(m.heap) + 2))
              ELSE Returned(m, g, arg)
       [] c.code = "parent" ->
            IF c.pc = 0
              THEN Yielded(Alloc(m, NewGen("child", c.vars)), g, 1, Fresh(m))
              ELSE Returned(m, g, arg)
       [] c.code = "child" ->
            IF c.pc < Len(c.vars.msgs)
              THEN Yielded(m, g, c.pc + 1,
                           perform("log", c.vars.msgs[c.pc + 1]))
              ELSE Returned(m, g, Num(10))
       [] c.code = "collectLogs_log" ->
            IF c.pc = 0
              THEN Yielded(m, g, 1, resumeWith(c.vars.resume, undefined))
              ELSE Returned(m, g, Arr(<<Item(arg, 1),
                                        Str(c.vars.data.str \o " {acc}")>>))

\* main of the shift/reset example: reset of a body that takes a = 10 and
\* b from a shift, made directly or in a child, and returns a * b; the
\* body of the shift calls k(v) and adds 3, or returns without calling k
Delimited(m, g, arg) ==
  LET c == m.heap[g.ref]
  IN CASE c.code = "main_reset" ->
            IF c.pc = 0
              THEN Yielded(m, g, 1, reset([c.vars EXCEPT !.genfn = "resetBody"]))
              ELSE Returned(m, g, arg)
       [] c.code = "resetBody" ->
            IF c.pc = 0
              THEN IF c.vars.nested
                     THEN Yielded(Alloc(m, NewGen("child_shift", c.vars)),
                                  g, 1, Fresh(m))
                     ELSE Yielded(m, g, 1,
                                  shift([c.vars EXCEPT !.genfn = "shiftBody"]))
              ELSE Returned(m, g, IF IsNum(arg) THEN Num(10 * arg.num) ELSE NaN)
       [] c.code = "child_shift" ->
            IF c.pc = 0
              THEN Yielded(m, g, 1,
                           shift([c.vars EXCEPT !.genfn = "shiftBody"]))
              ELSE Returned(m, g, arg)
       [] c.code = "shiftBody" ->
            IF c.pc = 0
              THEN IF c.vars.p.calls
                     THEN Yielded(m, g, 1, delimitedCont(c.vars.k, Num(c.vars.p.v)))
                     ELSE Returned(m, g, Str("from inside shift"))
              ELSE Returned(m, g, Plus(arg, Num(3)))

----------------------------------------------------------------------------
(* The machine *)

\* gen.next(arg); a generator that has returned stays done
GenResume(m, g, arg) ==
  IF m.heap[g.ref].done THEN [done |-> TRUE, value |-> undefined, m |-> m]
  ELSE CASE m.heap[g.ref].code \in {"main", "proc"} -> Processes(m, g, arg)
         [] m.heap[g.ref].code \in {"forked", "pause", "dequeue"} ->
              Scheduler(m, g, arg)
         [] m.heap[g.ref].code = "withHandlerFrame" ->
              withHandlerFrame(m, g, arg)
         [] m.heap[g.ref].code \in {"outer", "middle", "inner", "clause"} ->
              Handlers(m, g, arg)
         [] m.heap[g.ref].code \in {"main_logs", "parent", "child",
                                    "collectLogs_log"} -> Logs(m, g, arg)
         [] m.heap[g.ref].code \in {"main_reset", "resetBody", "child_shift",
                                    "shiftBody"} -> Delimited(m, g, arg)

\* the pending call runs up to the call it ends with
Invoke(m) ==
  LET f == m.pending.f
      args == m.pending.args
  IN IF ~IsCallable(f) THEN Return([m EXCEPT !.error = Str("TypeError")])
     ELSE CASE f.fn = "runGenerator_cps" ->
                 runGenerator_cps(m, args[1], args[2], args[3])
            [] f.fn = "continuation" ->
                 TailCall(m, [fn |-> "runGenerator_cps"],
                          <<f.gen, Arg(args, 1), f.next>>)
            [] f.fn = "sleep_fn" -> sleep_fn(m, f, args)
            [] f.fn = "callcc_fn" -> callcc_fn(m, f, args)
            [] f.fn = "jump_fn" -> jump_fn(m, f, args)
            [] f.fn = "fork_fn" -> fork_fn(m, f, args)
            [] f.fn = "onDone" ->
                 Return([m EXCEPT !.delivered = Append(@, Arg(args, 1))])
            [] f.fn = "console.log" -> Return(Log(m, args))
            [] f.fn = "start" -> start(m, args[1], args[2])
            [] f.fn = "runGenerator" -> runGenerator(m, args[1], args[2])
            [] f.fn = "perform_fn" -> perform_fn(m, f, args)
            [] f.fn = "resume_fn" -> resume_fn(m, f, args)
            [] f.fn = "reset_fn" -> reset_fn(m, f, args)
            [] f.fn = "shift_fn" -> shift_fn(m, f, args)
            [] f.fn = "delimitedCont_fn" -> delimitedCont_fn(m, f, args)

\* the host calls the callback of its next timer
Timeout(m) ==
  With(NextTimer(m), LAMBDA i :
    [m EXCEPT !.now = m.timers[i].due,
              !.timers = SubSeq(@, 1, i - 1) \o SubSeq(@, i + 1, Len(@)),
              !.pending = [f |-> m.timers[i].cb, args |-> <<>>]])

----------------------------------------------------------------------------
(* Observation of a tree: its names, params and leaves along every        *)
(* sequence of answers                                                     *)

IsNode(t) == HasTag(t, "operation") \/ IsOperation(t)

RECURSIVE Unfold(_)
Unfold(t) ==
  IF IsNode(t)
    THEN [name |-> Prop(t, "name"), params |-> Prop(t, "params"),
          kids |-> [a \in Answers |-> Unfold(Apply(Prop(t, "resume"), a, W0).v)]]
    ELSE t

----------------------------------------------------------------------------
(* The state machine: a program is built with the constructors and bind,  *)
(* and the operations of the library are applied to it.  lang says which  *)
(* representation the session uses: "ts" for expr.ts, "js" for the        *)
(* JavaScript listing.  out holds what the last call was given and what   *)
(* it returned.                                                            *)

MaxExtend == 2
MaxShots == 2
MaxPrints == 3
MaxYields == 2
MaxAll == 2
MaxOps == 3
MaxRuns == 2
MaxN == 5
MaxDelay == 2
MaxCount == 4

zeroJS == operationJS(Str("zero"), undefined, undefined)

addJS(left, right) ==
  operationJS(Str("add"), Arr(<<>>), [fn |-> "choose_then", m |-> left, n |-> right])

EmptyModel == [x \in {} |-> id]

Leaf(l, v) == IF l = "ts" THEN pure(v) ELSE v

Unit(l) == IF l = "ts" THEN [fn |-> "pure"] ELSE id

Bind(l, prog, then, w) ==
  Do(IF l = "ts" THEN "bind" ELSE "bindJS", <<prog, then>>, w)

\* handler(model)(prog): a model of generator functions is applied by the
\* handler that hands its entries to go, a model of functions by the one
\* that calls them
Handler(l, model, prog, w) ==
  Call([fn |-> IF l = "ts" THEN "evaluate"
               ELSE IF model = PickMaxModel THEN "handle" ELSE "handlerJS",
        model |-> model],
       <<prog>>, w)

Values == {Num(1), undefined}

Programs(l) ==
  IF l = "ts"
    THEN {pure(v) : v \in Values}
         \cup {random, log(Str("hello")), zero,
               add(pure(Num(1)), pure(Num(2))),
               operation(Str("frobnicate"), Arr(<<Num(1)>>), undefined)}
    ELSE Values
         \cup {print(Str("A")), decide, zeroJS, addJS(Num(1), Num(2)),
               operationJS(Str("frobnicate"), Arr(<<Num(1)>>), undefined),
               abc, pf}

Thens(l) ==
  IF l = "ts"
    THEN {[fn |-> "pure"], [fn |-> "K_log"],
          [fn |-> "choose_then", m |-> pure(Num(2)), n |-> zero]}
    ELSE {id, [fn |-> "K_print"],
          [fn |-> "choose_then", m |-> Num(2), n |-> zeroJS]}

Models(l) ==
  IF l = "ts"
    THEN {EmptyModel, InterpreterModel,
          [return |-> [fn |-> "hprintCollect_return"]],
          [zero |-> [fn |-> "interpreter_zero"],
           return |-> [fn |-> "pure"]]}
    ELSE {EmptyModel, InterpreterModel, HprintRevModel, HprintCollectModel,
          RunModel, PickMaxModel}

\* the models whose entry for an operation invokes its continuation twice
TwiceModels == {InterpreterModel, PickMaxModel}

Letters == {Str("A"), Str("B"), Str("C")}

SeqsUpTo(S, n) == UNION {[1..k -> S] : k \in 0..n}

\* function* () { yield P1; ...; yield Pn; return ret([x1, ..., xn]) }
Routine(yields, ret) == [gen |-> "routine", yields |-> yields, ret |-> ret]

\* a sub-program that is itself built by go
innerProgram == go(Routine(<<print(Str("A"))>>, id), <<>>, <<>>, W0).v

Yieldables ==
  {decide, Num(1), choose(Num(15), Num(30)), innerProgram,
   addJS(Num(1), Num(2))}

Returns == {[fn |-> "K_last"], [fn |-> "K_minus"]}

Routines ==
  {[gen |-> "abc"], [gen |-> "pf"]}
  \cup {Routine(ys, r) : ys \in SeqsUpTo(Yieldables, MaxYields), r \in Returns}

\* the nesting of binds a routine is written for
Nested(gf) ==
  IF gf.gen = "abc"
    THEN Do("nest", <<Arr(<<print(Str("A")), print(Str("B")),
                             print(Str("C"))>>),
                       [fn |-> "K_const", value |-> undefined]>>, W0)
  ELSE IF gf.gen = "pf"
    THEN Do("nest", <<Arr(<<choose(Num(15), Num(30)),
                             choose(Num(5), Num(10))>>),
                       [fn |-> "K_minus"]>>, W0)
  ELSE Do("nest", <<Arr(gf.yields), gf.ret>>, W0)

\* function* () { yield print(xs[0]); ...; yield print(xs[n-1]) }
Printing(xs) ==
  IF xs = <<Str("A"), Str("B"), Str("C")>> THEN [gen |-> "abc"]
  ELSE Routine([i \in 1..Len(xs) |-> print(xs[i])],
               [fn |-> "K_const", value |-> undefined])

Init ==
  /\ lang \in {"ts", "js"}
  /\ program \in Programs(lang)
  /\ steps = 0
  /\ out = [op |-> "none"]

\* the program is under construction: no operation was applied to it yet
Building == out.op \in {"none", "bind", "go", "prints"}

\* program = bind(program, then)
Extend ==
  /\ Building
  /\ steps < MaxExtend
  /\ \E then \in Thens(lang) :
       \E b \in {Bind(lang, program, then, W0)} :
         /\ program' = b.v
         /\ out' = [op |-> "bind", then |-> then, built |-> b.w]
  /\ steps' = steps + 1
  /\ lang' = lang

\* program = go(gf), beside the nesting of binds written by hand
Go ==
  /\ lang = "js"
  /\ out.op = "none"
  /\ \E gf \in Routines :
       \E b \in {Do("go", <<gf>>, W0)} :
         /\ program' = b.v
         /\ out' = [op |-> "go", gf |-> gf, nested |-> Nested(gf).v,
                    built |-> b.w]
  /\ steps' = MaxExtend
  /\ lang' = lang

\* program = go(function* () { yield print(xs[0]); ... })
GoPrints ==
  /\ lang = "js"
  /\ out.op = "none"
  /\ \E xs \in SeqsUpTo(Letters, MaxPrints) :
       \E b \in {Do("go", <<Printing(xs)>>, W0)} :
         /\ program' = b.v
         /\ out' = [op |-> "prints", xs |-> xs, built |-> b.w]
  /\ steps' = MaxExtend
  /\ lang' = lang

\* both sides of the associativity law
Assoc ==
  /\ Building
  /\ \E f \in Thens(lang), g \in Thens(lang) :
       out' = [op |-> "assoc", f |-> f, g |-> g,
               l |-> AndThen(Bind(lang, program, f, W0), LAMBDA v, w :
                                Bind(lang, v, g, w)).v,
               r |-> Bind(lang, program,
                          [fn |-> "assoc_then", lang |-> lang, f |-> f,
                           g |-> g], W0).v]
  /\ UNCHANGED <<lang, program, steps>>

\* both sides of the two identity laws
Identity ==
  /\ Building
  /\ \E x \in Values, f \in Thens(lang) :
       out' = [op |-> "identity", x |-> x, f |-> f,
               left |-> Bind(lang, Leaf(lang, x), f, W0).v,
               fx |-> Apply(f, x, W0).v,
               right |-> Bind(lang, program, Unit(lang), W0).v]
  /\ UNCHANGED <<lang, program, steps>>

\* handler(model)(program), with no handler around it
Evaluate ==
  /\ Building
  /\ \E model \in Models(lang) :
       out' = With(Handler(lang, model, program, W0), LAMBDA r :
                [op |-> "evaluate", model |-> model, result |-> r.v,
                 w |-> r.w])
  /\ UNCHANGED <<lang, program, steps>>

\* handler(outer)(handler(inner)(program)) and handler(outer)(program)
Stack ==
  /\ Building
  /\ \E inner \in Models(lang), outer \in Models(lang) :
       out' = With(Handler(lang, inner, program, W0), LAMBDA i :
                [op |-> "stack", inner |-> inner, outer |-> outer,
                 stacked |-> Handler(lang, outer, i.v, i.w).v,
                 direct |-> Handler(lang, outer, program, W0).v])
  /\ UNCHANGED <<lang, program, steps>>

\* run(hprintRev(program)) for a program of prints
Reverse ==
  /\ out.op = "prints"
  /\ out' = With(Do("hprintRev", <<program>>, W0), LAMBDA h :
              With(Do("run", <<h.v>>, h.w), LAMBDA r :
                [op |-> "reverse", xs |-> out.xs, handled |-> h.v,
                 result |-> r.v, console |-> r.w.console]))
  /\ UNCHANGED <<lang, program, steps>>

\* the continuation a model entry was handed: the last argument of the
\* first call the handler made of an entry
Continuation(model, w) ==
  LET args == IF model = PickMaxModel THEN w.made[1].args
              ELSE w.calls[1].args
  IN args[Len(args)]

\* handler(model)(program) for a program built by go whose first operation
\* the model resumes twice; the continuation the entry was handed is kept
Capture ==
  /\ out.op = "go"
  /\ IsOperation(program)
  /\ \E model \in TwiceModels :
       /\ Key(program.name) \in DOMAIN model
       /\ out' = With(Handler(lang, model, program, W0), LAMBDA r :
                   [op |-> "capture", gf |-> out.gf, nested |-> out.nested,
                    model |-> model, k |-> Continuation(model, r.w),
                    result |-> r.v, shots |-> <<>>, w |-> r.w])
  /\ UNCHANGED <<lang, program, steps>>

\* one more invocation of the kept continuation, with any answer
Resume ==
  /\ out.op = "capture"
  /\ Len(out.shots) < MaxShots
  /\ \E a \in Answers :
       out' = With(Apply(out.k, a, out.w), LAMBDA r :
                [out EXCEPT !.shots = Append(@, [a |-> a, v |-> r.v]),
                            !.w = r.w])
  /\ UNCHANGED <<lang, program, steps>>

\* the world with its records of calls emptied, what it holds kept
Unrecorded(w) == [w EXCEPT !.calls = <<>>, !.resumed = <<>>, !.made = <<>>]

\* a consumer invokes the continuation of the residual node that the
\* evaluation returned for the unhandled operation at the root, in the
\* world the evaluation and the invocations before have left
Consume ==
  /\ \/ /\ out.op = "evaluate"
        /\ IsNode(program)
        /\ Key(program.name) \notin DOMAIN out.model
     \/ out.op = "forward" /\ out.count < MaxShots
  /\ \E a \in Answers :
       out' = With(Apply(Prop(IF out.op = "forward" THEN out.node
                              ELSE out.result, "resume"), a,
                         Unrecorded(out.w)),
                   LAMBDA r :
                [op |-> "forward", model |-> out.model,
                 node |-> IF out.op = "forward" THEN out.node ELSE out.result,
                 count |-> IF out.op = "forward" THEN out.count + 1 ELSE 1,
                 a |-> a, v |-> r.v, before |-> Len(out.w.console),
                 w |-> r.w])
  /\ UNCHANGED <<lang, program, steps>>

\* function* () { console.log(0); yield P1; console.log(1); ...; return }
Traced ==
  {[gen |-> "traced", yields |-> ys] :
     ys \in SeqsUpTo({decide, print(Str("A"))}, MaxYields) \ {<<>>}}

\* program = go(gf) for a routine that writes a line before each of its
\* suspension points; nodes holds the trees obtained so far and how many
\* answers led to each
Trace ==
  /\ lang = "js"
  /\ out.op = "none"
  /\ \E gf \in Traced :
       \E b \in {Do("go", <<gf>>, W0)} :
         /\ program' = b.v
         /\ out' = [op |-> "trace", gf |-> gf,
                    nodes |-> <<[tree |-> b.v, depth |-> 0]>>,
                    shots |-> <<>>, w |-> b.w]
  /\ UNCHANGED <<lang, steps>>

\* the continuation of any node obtained so far is invoked with an answer
Retrace ==
  /\ out.op = "trace"
  /\ Len(out.shots) < MaxShots
  /\ \E i \in DOMAIN out.nodes, a \in Answers :
       /\ IsOperation(out.nodes[i].tree)
       /\ out' = With(Apply(out.nodes[i].tree.resume, a, out.w), LAMBDA r :
                   [out EXCEPT !.nodes = Append(@, [tree |-> r.v,
                                                    depth |-> out.nodes[i].depth + 1]),
                               !.shots = Append(@, out.nodes[i].depth + 1),
                               !.w = r.w])
  /\ UNCHANGED <<lang, program, steps>>

\* the trees whose leaf is a function, for ap
Functions ==
  {[fn |-> "F_minus"], [fn |-> "F_list"],
   bindJS(decide, [fn |-> "choose_then", m |-> [fn |-> "F_minus"],
                   n |-> [fn |-> "F_list"]], W0).v}

\* the computations handed to all, seq and ap: a leaf, a node and a tree
Computations == {Num(1), decide, choose(Num(15), Num(30))}

\* all(cs), seq(...cs) and ap(cfunc, ...cs)
Combine ==
  /\ lang = "js"
  /\ out.op = "none"
  /\ \E cs \in SeqsUpTo(Computations, MaxAll), cfunc \in Functions :
       out' = [op |-> "all", cs |-> cs, cfunc |-> cfunc,
               all |-> Do("all", <<Arr(cs)>>, W0).v,
               seq |-> Do("seq", <<Arr(cs)>>, W0).v,
               ap |-> Do("ap", <<cfunc, Arr(cs)>>, W0).v]
  /\ UNCHANGED <<lang, program, steps>>

\* function* () { x = yield get; yield put(7); yield put(x + 10); ...;
\*               return ret([the answers]) }
StateRoutine(ops, ret) == [gen |-> "stateful", ops |-> ops, ret |-> ret]

StateOps == {"get", "put7", "putPlus10"}

InitialStates == {Num(5), Num(0)}

\* program = go(a routine of gets and puts), and state(program)
State ==
  /\ lang = "js"
  /\ out.op = "none"
  /\ \E ops \in SeqsUpTo(StateOps, MaxOps), ret \in {id, [fn |-> "K_last"]} :
       /\ program' = Do("go", <<StateRoutine(ops, ret)>>, W0).v
       /\ out' = With(Do("state", <<program'>>, W0), LAMBDA r :
                   [op |-> "state", ops |-> ops, ret |-> ret, f |-> r.v,
                    runs |-> <<>>, w |-> r.w])
  /\ UNCHANGED <<lang, steps>>

\* state(program)(s), once more
ApplyState ==
  /\ out.op = "state"
  /\ Len(out.runs) < MaxRuns
  /\ \E s \in InitialStates :
       out' = With(Apply(out.f, s, out.w), LAMBDA r :
                [out EXCEPT !.runs = Append(@, [s |-> s, v |-> r.v]),
                            !.w = r.w])
  /\ UNCHANGED <<lang, program, steps>>

\* the programs of decide and fail given to backtrack
SearchPrograms ==
  {fail, decide, chooseIn(1, 2)}
  \cup {Do("go", <<Routine(ys, r)>>, W0).v :
          ys \in SeqsUpTo({decide, fail, chooseIn(1, 2)}, MaxYields),
          r \in Returns}

\* backtrack(program) for a program of decide and fail
Backtrack ==
  /\ lang = "js"
  /\ out.op = "none"
  /\ \E prog \in SearchPrograms :
       /\ program' = prog
       /\ out' = With(Do("backtrack", <<prog>>, W0), LAMBDA r :
                   [op |-> "backtrack", result |-> r.v, w |-> r.w])
  /\ UNCHANGED <<lang, steps>>

\* backtrack(go(pythagorean, [m, n]))
Pythagorean ==
  /\ lang = "js"
  /\ out.op = "none"
  /\ \E m \in 1..MaxN, n \in 1..MaxN :
       /\ program' = Do("go", <<[gen |-> "pythagorean"],
                                   Arr(<<Num(m), Num(n)>>)>>, W0).v
       /\ out' = With(Do("backtrack", <<program'>>, W0), LAMBDA r :
                   [op |-> "pythagorean", m |-> m, n |-> n,
                    result |-> r.v])
  /\ UNCHANGED <<lang, steps>>

\* a computation that gives v at once, or after a wait
Branches(v) ==
  {v} \cup {Do("bindJS", <<wait(ms), [fn |-> "K_const", value |-> v]>>,
                 W0).v : ms \in 0..MaxDelay}

\* what run(tree) leaves when it is applied in the world w; the program
\* was built in the world built
Started(kind, tree, built, w) ==
  With(Do("run", <<tree>>, w), LAMBDA r :
    [op |-> "async", kind |-> kind, built |-> built, returned |-> r.v,
     w |-> r.w, ticks |-> 0])

\* run(go(function* () { yield wait(ms); yield print("A") }))
RunWait ==
  /\ lang = "js"
  /\ out.op = "none"
  /\ \E ms \in 0..MaxDelay :
       \E b \in {Do("go", <<Routine(<<wait(ms), print(Str("A"))>>,
                                      [fn |-> "K_last"])>>, W0)} :
         /\ program' = b.v
         /\ out' = Started("wait", b.v, b.w, b.w)
  /\ UNCHANGED <<lang, steps>>

\* run(bind(fork(), print))
RunFork ==
  /\ lang = "js"
  /\ out.op = "none"
  /\ \E b \in {Do("bindJS", <<fork, [fn |-> "K_print"]>>, W0)} :
       /\ program' = b.v
       /\ out' = Started("fork", b.v, b.w, b.w)
  /\ UNCHANGED <<lang, steps>>

\* run(bind(par(c1, c2), print))
RunPar ==
  /\ lang = "js"
  /\ out.op = "none"
  /\ \E c1 \in Branches(Str("L")), c2 \in Branches(Str("R")) :
       \E b \in {AndThen(Do("par", <<c1, c2>>, W0),
                          LAMBDA t, w :
                            Do("bindJS", <<t, [fn |-> "K_print"]>>, w))} :
         /\ program' = b.v
         /\ out' = Started("par", b.v, b.w, b.w)
  /\ UNCHANGED <<lang, steps>>

\* run(bind(par(c1, c2), print)) once more, for the tree that has been run
\* to its end
RunParAgain ==
  /\ out.op = "async"
  /\ out.kind = "par"
  /\ out.w.timers = <<>>
  /\ out' = With(Do("run", <<program>>, out.w), LAMBDA r :
              [out EXCEPT !.kind = "par again", !.returned = r.v,
                          !.w = r.w, !.ticks = 0])
  /\ UNCHANGED <<lang, program, steps>>

\* what a routine does before an exit(), and what is written after it
BeforeExit ==
  SeqsUpTo({print(Str("A")), wait(0), wait(MaxDelay), fork}, MaxYields)

AfterExit == {<<print(Str("B"))>>, <<wait(0), print(Str("B"))>>}

\* run(go(function* () { ...; yield exit(); ... }))
RunExit ==
  /\ lang = "js"
  /\ out.op = "none"
  /\ \E before \in BeforeExit, after \in AfterExit :
       \E b \in {Do("go", <<Routine(before \o <<exit>> \o after,
                                      [fn |-> "K_last"])>>, W0)} :
         /\ program' = b.v
         /\ out' = Started("exit", b.v, b.w, b.w)
  /\ UNCHANGED <<lang, steps>>

\* the branches whose first operation tells c1 from c2: a print of the
\* side, or a wait of a delay the other side does not use
Lefts ==
  {print(Str("L")),
   Do("bindJS", <<wait(0), [fn |-> "K_const", value |-> Str("L")]>>, W0).v,
   Do("bindJS", <<wait(MaxDelay), [fn |-> "K_const", value |-> Str("L")]>>,
      W0).v}

Rights ==
  {print(Str("R")),
   Do("bindJS", <<wait(1), [fn |-> "K_const", value |-> Str("R")]>>, W0).v}

\* run(bind(par(c1, c2), print)) for branches that begin with an operation
RunPars ==
  /\ lang = "js"
  /\ out.op = "none"
  /\ \E c1 \in Lefts, c2 \in Rights :
       \E b \in {AndThen(Do("par", <<c1, c2>>, W0),
                          LAMBDA t, w :
                            Do("bindJS", <<t, [fn |-> "K_print"]>>, w))} :
         /\ program' = b.v
         /\ out' = Started("pars", b.v, b.w, b.w)
  /\ UNCHANGED <<lang, steps>>

\* run(state(ps)(5))
RunPs ==
  /\ lang = "js"
  /\ out.op = "none"
  /\ \E b \in {Do("go", <<[gen |-> "ps"]>>, W0)} :
       /\ program' = b.v
       /\ out' = With(AndThen(Do("state", <<b.v>>, b.w),
                              LAMBDA f, w : Apply(f, Num(5), w)),
                      LAMBDA t : Started("ps", t.v, b.w, t.w))
  /\ UNCHANGED <<lang, steps>>

\* the host runs the callback of its next timer
Tick ==
  /\ out.op = "async"
  /\ out.w.timers # <<>>
  /\ out' = With(Fire(out.w), LAMBDA r :
              [out EXCEPT !.w = r.w, !.ticks = @ + 1])
  /\ UNCHANGED <<lang, program, steps>>

\* runGenerator(main(), null, onDone) for main forking proc("1", n1) and
\* proc("2", n2)
RunMain ==
  /\ lang = "js"
  /\ out.op = "none"
  /\ \E n1 \in 0..MaxCount, n2 \in 0..MaxCount :
       out' = [op |-> "machine", kind |-> "sched", n1 |-> n1, n2 |-> n2,
               m |-> Machine(<<NewGen("main", [n1 |-> n1, n2 |-> n2])>>,
                             [fn |-> "runGenerator_cps"],
                             <<Ref(1), null, [fn |-> "onDone"]>>)]
  /\ program' = undefined
  /\ UNCHANGED <<lang, steps>>

\* the effect types of the handler examples
EffectTypes == {"a", "b"}

\* a handler object with one clause for each of its types
Clauses(frame, types, resumes) ==
  [t \in types |-> [genfn |-> "clause", frame |-> frame, resumes |-> resumes]]

\* start(outer(), onDone) for outer handling middle with h1, and middle
\* handling inner with h2, inner performing one effect
RunHandlers ==
  /\ lang = "js"
  /\ out.op = "none"
  /\ \E types1 \in SUBSET EffectTypes, types2 \in SUBSET EffectTypes,
        type \in EffectTypes, resumes1 \in BOOLEAN, resumes2 \in BOOLEAN :
       out' = [op |-> "machine", kind |-> "handlers", types1 |-> types1,
               types2 |-> types2, type |-> type, resumes1 |-> resumes1,
               resumes2 |-> resumes2,
               m |-> Machine(<<NewGen("outer",
                                      [h1 |-> Clauses(1, types1, resumes1),
                                       h2 |-> Clauses(2, types2, resumes2),
                                       type |-> type])>>,
                             [fn |-> "start"], <<Ref(1), [fn |-> "onDone"]>>)]
  /\ program' = undefined
  /\ UNCHANGED <<lang, steps>>

\* start(main(), console.log) for main handling parent with collectLogs,
\* and child performing log of each of msgs
RunLogs ==
  /\ lang = "js"
  /\ out.op = "none"
  /\ \E msgs \in SeqsUpTo(Letters, MaxPrints) :
       out' = [op |-> "machine", kind |-> "logs", msgs |-> msgs,
               m |-> Machine(<<NewGen("main_logs", [msgs |-> msgs])>>,
                             [fn |-> "start"],
                             <<Ref(1), [fn |-> "console.log"]>>)]
  /\ program' = undefined
  /\ UNCHANGED <<lang, steps>>

\* start(main(), onDone) for main with the reset block whose shift gives
\* k the value v, or does not call k, the shift made in the body of the
\* reset or in a child of it
RunReset ==
  /\ lang = "js"
  /\ out.op = "none"
  /\ \E nested \in BOOLEAN, calls \in BOOLEAN, v \in 0..MaxCount :
       out' = [op |-> "machine", kind |-> "reset", nested |-> nested,
               calls |-> calls, v |-> v,
               m |-> Machine(<<NewGen("main_reset",
                                      [genfn |-> "main_reset",
                                       nested |-> nested, calls |-> calls,
                                       v |-> v])>>,
                             [fn |-> "start"], <<Ref(1), [fn |-> "onDone"]>>)]
  /\ program' = undefined
  /\ UNCHANGED <<lang, steps>>

\* the pending call of the machine runs
Step ==
  /\ out.op = "machine"
  /\ out.m.pending # Idle
  /\ out' = [out EXCEPT !.m = Invoke(out.m)]
  /\ UNCHANGED <<lang, program, steps>>

\* the machine is idle and the host runs its next timer
Timer ==
  /\ out.op = "machine"
  /\ out.m.pending = Idle
  /\ out.m.timers # <<>>
  /\ out' = [out EXCEPT !.m = Timeout(out.m)]
  /\ UNCHANGED <<lang, program, steps>>

\* run(program) for a program of prints
Natural ==
  /\ out.op = "prints"
  /\ out' = With(Do("run", <<program>>, W0), LAMBDA r :
              [op |-> "natural", xs |-> out.xs, result |-> r.v,
               console |-> r.w.console, resumed |-> Len(r.w.resumed)])
  /\ UNCHANGED <<lang, program, steps>>

Next ==
  \/ Extend \/ Go \/ GoPrints
  \/ Assoc \/ Identity \/ Evaluate \/ Stack \/ Reverse
  \/ Capture \/ Resume \/ Consume \/ Trace \/ Retrace
  \/ Natural \/ Combine
  \/ State \/ ApplyState
  \/ Backtrack \/ Pythagorean
  \/ RunWait \/ RunFork \/ RunPar \/ RunParAgain \/ RunPars \/ RunExit
  \/ RunPs  \/ Tick
  \/ RunMain \/ RunHandlers \/ RunLogs \/ RunReset
  \/ Step \/ Timer

Spec == Init /\ [][Next]_vars

----------------------------------------------------------------------------
(* Properties *)

\* the root of the program is an operation the model of the last
\* evaluation has an entry for / has no entry for
RootHandled ==
  /\ out.op = "evaluate" /\ IsNode(program)
  /\ Key(program.name) \in DOMAIN out.model

RootUnhandled ==
  /\ out.op = "evaluate" /\ IsNode(program)
  /\ Key(program.name) \notin DOMAIN out.model

\* f behaves as a => handler(model)(resume(a)) on every answer
IsEvaluateAfter(f, model, resume) ==
  \A a \in Answers :
    Apply(f, a, W0).v
      = AndThen(Apply(resume, a, W0),
                LAMBDA v, w : Handler(lang, model, v, w)).v

\* the calls made of the entry the root of the program is handled by:
\* by the handler itself, or by go when the handler hands the entry to go
EntryCalls ==
  IF out.model = PickMaxModel
    THEN [i \in DOMAIN out.w.made |-> out.w.made[i].args]
    ELSE [i \in DOMAIN out.w.calls |-> out.w.calls[i].args]

\* how many of these calls were for the root of the program
RootCalls == Len(SelectSeq(EntryCalls, LAMBDA args : args = EntryCalls[1]))

\* the reverse of a sequence
Rev(xs) == [i \in 1..Len(xs) |-> xs[Len(xs) + 1 - i]]

\* C1: with an inner model that has no entry at all and no return
\* transform, and an outer model that has an entry for the operation at
\* the root of the program, handler(outer)(handler(inner)(program)) is the
\* same as handler(outer)(program)
C1_StackingTransparent ==
  (/\ out.op = "stack" /\ IsNode(program)
   /\ out.inner = EmptyModel
   /\ Key(program.name) \in DOMAIN out.outer)
  => Unfold(out.stacked) = Unfold(out.direct)

\* C2: bind(bind(p, f), g) and bind(p, a => bind(f(a), g)) are the same
\* tree: same names, params and leaves along every sequence of answers
C2_BindAssociative ==
  out.op = "assoc" => Unfold(out.l) = Unfold(out.r)

C2_Witness ==
  /\ out.op = "assoc" /\ lang = "ts"
  /\ program = add(pure(Num(1)), pure(Num(2)))
  /\ out.f = [fn |-> "K_log"]
  /\ out.g = [fn |-> "choose_then", m |-> pure(Num(2)), n |-> zero]
  /\ IsNode(out.l)
  /\ Unfold(out.l).kids[Bool(TRUE)].name = Str("log")
  /\ Unfold(out.l).kids[Bool(TRUE)].kids[undefined].name = Str("zero")
  /\ Unfold(out.l).kids[Bool(TRUE)].kids[Bool(TRUE)] = pure(Num(2))

\* C3: bind(leaf(x), f) is f(x), and bind(p, leaf) is p
C3_BindIdentity ==
  out.op = "identity"
    => /\ Unfold(out.left) = Unfold(out.fx)
       /\ Unfold(out.right) = Unfold(program)

C3_Witness ==
  /\ out.op = "identity" /\ lang = "js"
  /\ program = pf
  /\ out.x = Num(1) /\ out.f = [fn |-> "K_print"]
  /\ out.left = print(Num(1))
  /\ IsNode(out.right) /\ out.right # program

\* C4 as stated: evaluating a program whose root operation no model claims
\* ends in an error, not in a tree
C4_UnhandledIsError ==
  RootUnhandled => IsThrow(out.result)

\* C4: evaluating a program whose root operation the model lacks raises no
\* error: the result is an operation node with that name and those params,
\* which no leaf is
C4_UnhandledIsResidualNode ==
  RootUnhandled
    => /\ ~IsThrow(out.result)
       /\ IsNode(out.result)
       /\ out.result.name = program.name
       /\ out.result.params = program.params
       /\ \A v \in Values : out.result # Leaf(lang, v)

C4_Witness ==
  /\ RootUnhandled
  /\ program.name = Str("frobnicate")
  /\ out.model = InterpreterModel
  /\ IsNode(out.result) /\ out.result.name = Str("frobnicate")

\* C5: an operation the model lacks is forwarded: the result is a node with
\* the same name and params whose continuation is a => evaluate(resume(a)),
\* and neither an entry of the model nor resume was called
C5_UnhandledForwarded ==
  RootUnhandled
    => /\ IsNode(out.result)
       /\ out.result.name = program.name
       /\ out.result.params = program.params
       /\ IsEvaluateAfter(out.result.resume, out.model, program.resume)
       /\ out.w.calls = <<>> /\ out.w.made = <<>> /\ out.w.resumed = <<>>

C5_Witness ==
  /\ RootUnhandled /\ lang = "ts"
  /\ program.name = Str("log")
  /\ "return" \in DOMAIN out.model
  /\ Apply(out.result.resume, Num(1), W0).v
       = Arr(<<Num(1), Str("")>>)

C7_LeafStaysProgram ==
  (out.op = "evaluate" /\ ~IsNode(program))
    => out.result
         = IF "return" \in DOMAIN out.model
             THEN Apply(out.model["return"],
                        IF lang = "ts" THEN program.value ELSE program, W0).v
             ELSE program

\* C8: the program go builds from a routine is the nesting of binds
\* written by hand, a routine that never suspends gives a leaf, and a
\* program built by go that a routine yields is unfolded in place
C8_GoIsNestedBind ==
  out.op = "go"
    => /\ Unfold(program) = Unfold(out.nested)
       /\ (out.gf.gen = "routine" /\ out.gf.yields = <<>>)
            => ~IsNode(program)

C8_Witness ==
  /\ out.op = "go"
  /\ out.gf = Routine(<<innerProgram, choose(Num(15), Num(30))>>,
                      [fn |-> "K_minus"])
  /\ IsOperation(program) /\ program.name = Str("print")
  /\ Unfold(program).kids[undefined].name = Str("decide")
  /\ Unfold(program).kids[undefined].kids[Bool(FALSE)] = Num(-30)

\* the tree bind(P2, ...) written by hand for the prefix answer a, under
\* the model of the capture
SeparateEvaluation(a) ==
  AndThen(Apply(out.nested.resume, a, W0),
          LAMBDA v, w : Handler(lang, out.model, v, w)).v

\* C9: every invocation of the continuation of the first operation of a
\* program built by go, whatever was invoked before it, gives the
\* evaluation of the separately written tree for the same answer; the
\* model's own two invocations do too
C9_MultiShotIndependent ==
  out.op = "capture"
    => /\ \A i \in DOMAIN out.shots :
            Unfold(out.shots[i].v)
              = Unfold(SeparateEvaluation(out.shots[i].a))
       /\ out.model = InterpreterModel
            => out.result = Plus(SeparateEvaluation(Bool(TRUE)),
                                 SeparateEvaluation(Bool(FALSE)))
       /\ (/\ out.model = PickMaxModel
           /\ ~IsNode(SeparateEvaluation(Bool(TRUE)))
           /\ ~IsNode(SeparateEvaluation(Bool(FALSE))))
            => out.result = MathMax(SeparateEvaluation(Bool(TRUE)),
                                    SeparateEvaluation(Bool(FALSE)))

C9_Witness ==
  /\ out.op = "capture"
  /\ out.gf = [gen |-> "pf"]
  /\ out.model = PickMaxModel
  /\ out.result = Num(25)
  /\ Len(out.shots) = 2
  /\ out.shots[1] = [a |-> Bool(FALSE), v |-> Num(25)]
  /\ out.shots[2] = [a |-> Bool(TRUE), v |-> Num(10)]

C11_PrintsInOrder ==
  out.op = "natural"
    => /\ out.console = out.xs
       /\ out.resumed = Len(out.xs)

C11_Witness ==
  /\ out.op = "natural"
  /\ out.xs = <<Str("A"), Str("B"), Str("C")>>
  /\ out.console = <<Str("A"), Str("B"), Str("C")>>

\* what a routine of gets and puts is answered when every get is answered
\* with the value of the last put before it, or s0, and every put with
\* undefined
RECURSIVE StateAnswers(_, _, _)
StateAnswers(ops, s, recv) ==
  IF Len(recv) = Len(ops) THEN recv
  ELSE LET op == ops[Len(recv) + 1]
       IN IF op = "get" THEN StateAnswers(ops, s, Append(recv, s))
          ELSE IF op = "put7"
            THEN StateAnswers(ops, Num(7), Append(recv, undefined))
          ELSE StateAnswers(ops, Plus(LastGet(ops, recv), Num(10)),
                            Append(recv, undefined))

RECURSIVE IsChoiceTree(_)
IsChoiceTree(u) ==
  IF "kids" \in DOMAIN u
    THEN /\ u.name = Str("decide")
         /\ IsChoiceTree(u.kids[Bool(TRUE)])
         /\ IsChoiceTree(u.kids[Bool(FALSE)])
    ELSE IsNum(u)

\* the results of a tree of choices over all combinations of choices
RECURSIVE Outcomes(_)
Outcomes(u) ==
  IF "kids" \in DOMAIN u
    THEN Outcomes(u.kids[Bool(TRUE)]) \cup Outcomes(u.kids[Bool(FALSE)])
    ELSE {u.num}

\* C13: for a program of nested binary choices that returns a number,
\* pickMax returns the maximum of the results over all combinations of
\* choices
C13_PickMaxIsMaximum ==
  (/\ out.op = "evaluate" /\ out.model = PickMaxModel
   /\ IsNode(program) /\ IsChoiceTree(Unfold(program)))
    => /\ IsNum(out.result)
       /\ out.result.num \in Outcomes(Unfold(program))
       /\ \A n \in Outcomes(Unfold(program)) : n <= out.result.num

C13_Witness ==
  /\ out.op = "evaluate" /\ out.model = PickMaxModel
  /\ program = pf
  /\ Outcomes(Unfold(program)) = {15 - 5, 15 - 10, 30 - 5, 30 - 10}
  /\ out.result = Num(25)

\* an unfolded tree of decide and fail nodes
RECURSIVE IsSearchTree(_)
IsSearchTree(u) ==
  IF "kids" \in DOMAIN u
    THEN \/ u.name = Str("fail")
         \/ /\ u.name = Str("decide")
            /\ IsSearchTree(u.kids[Bool(TRUE)])
            /\ IsSearchTree(u.kids[Bool(FALSE)])
    ELSE TRUE

Failed == [failed |-> TRUE]

\* the value of the first path that does not fail, the branch false of a
\* decide being tried before its branch true
RECURSIVE Search(_)
Search(u) ==
  IF "kids" \in DOMAIN u
    THEN IF u.name = Str("fail") THEN Failed
         ELSE With(Search(u.kids[Bool(FALSE)]), LAMBDA r :
                IF r = Failed THEN Search(u.kids[Bool(TRUE)]) ELSE r)
    ELSE u

\* the answers the continuation of the root of the program was resumed
\* with, in order
RootResumes ==
  LET own == SelectSeq(out.w.resumed,
                       LAMBDA r : r.resume = program.resume)
  IN [i \in DOMAIN own |-> own[i].a]

\* the triples pythagorean(m, n) can return
Triples(m, n) ==
  {t \in (m..n) \X (m..n) \X (0..2 * n) :
     t[1] < t[2] /\ t[1] * t[1] + t[2] * t[2] = t[3] * t[3]}

C20_Combinators ==
  out.op = "all"
    => /\ Unfold(out.all) = Unfold(nest(out.cs, id, <<>>, W0).v)
       /\ out.cs = <<>> => out.all = Arr(<<>>)
       /\ Unfold(out.seq)
            = Unfold(nest(out.cs, [fn |-> "K_last"], <<>>, W0).v)
       /\ Unfold(out.ap)
            = Unfold(nest(<<out.cfunc>> \o out.cs,
                          [fn |-> "K_applyHead"], <<>>, W0).v)

C20_Witness ==
  /\ out.op = "all"
  /\ out.cs = <<choose(Num(15), Num(30)), decide>>
  /\ out.cfunc = [fn |-> "F_minus"]
  /\ out.all.name = Str("decide")
  /\ Unfold(out.all).kids[Bool(FALSE)].name = Str("decide")
  /\ Unfold(out.all).kids[Bool(FALSE)].kids[Bool(TRUE)]
       = Arr(<<Num(30), Bool(TRUE)>>)
  /\ Unfold(out.seq).kids[Bool(FALSE)].kids[Bool(TRUE)] = Bool(TRUE)
  /\ Unfold(out.ap).kids[Bool(FALSE)].kids[Bool(TRUE)] = Num(29)

----------------------------------------------------------------------------
(* Timers: wait, fork and par under run *)

Async(kind) == out.op = "async" /\ out.kind = kind

\* the calls run has made of its asynk entry for an exit()
Exits ==
  SelectSeq(out.w.calls,
            LAMBDA c : c.name = Str("asynk") /\ c.args[1] = [fn |-> "exit_start"])

\* how many of the two branches of the par have completed
Completed == Cardinality({i \in DOMAIN out.w.heap : out.w.heap[i] # NA})

EffectFree(w) == w.calls = <<>> /\ w.timers = <<>> /\ w.console = <<>>

\* C19: building a program with bind, go, par and the constructors of the
\* effects calls no entry of a model, sets no timer and writes nothing;
\* those happen when run is applied to the program
C19_BuildingIsPure ==
  /\ out.op \in {"bind", "go", "prints", "async"} => EffectFree(out.built)
  /\ (Async("wait") \/ Async("fork") \/ Async("par")) => out.w.calls # <<>>

C19_Witness ==
  /\ Async("par")
  /\ out.ticks = 0
  /\ EffectFree(out.built)
  /\ out.built.heap = <<NA, NA>>
  /\ out.built.made = <<>>
  /\ Len(out.w.timers) = 2
  /\ Len(out.w.calls) = 2

----------------------------------------------------------------------------
(* The process queue *)

Sched == out.op = "machine" /\ out.kind = "sched"

\* nothing is pending and no timer is set: the machine has stopped
Halted == out.m.pending = Idle /\ out.m.timers = <<>>

IsPrefix(s, t) == Len(s) <= Len(t) /\ s = SubSeq(t, 1, Len(s))

\* the lines of proc("1", n1) and proc("2", n2) taking turns from round i on
RECURSIVE Turns(_, _, _)
Turns(i, n1, n2) ==
  IF i > n1 /\ i > n2 THEN <<>>
  ELSE (IF i <= n1 THEN <<(<<Str("1"), Num(i)>>)>> ELSE <<>>)
         \o (IF i <= n2 THEN <<(<<Str("2"), Num(i)>>)>> ELSE <<>>)
         \o Turns(i + 1, n1, n2)

\* C21: main, which forks proc("1", n1) and proc("2", n2) and then calls
\* dequeue, prints the lines of the two processes in turns, the process
\* forked first going first, and "end main" after the last of them; for n1 =
\* 4 and n2 = 2 that is 1 0, 2 0, 1 1, 2 1, 1 2, 2 2, 1 3, 1 4, end main
C21_FifoScheduling ==
  Sched =>
    /\ IsPrefix(out.m.console,
                Append(Turns(0, out.n1, out.n2), <<Str("end main")>>))
    /\ out.m.error = undefined
    /\ Halted => out.m.console
                   = Append(Turns(0, out.n1, out.n2), <<Str("end main")>>)

C21_Witness ==
  /\ Sched /\ Halted
  /\ out.n1 = 4 /\ out.n2 = 2
  /\ out.m.queue = <<>>
  /\ out.m.console
       = << <<Str("1"), Num(0)>>, <<Str("2"), Num(0)>>, <<Str("1"), Num(1)>>,
            <<Str("2"), Num(1)>>, <<Str("1"), Num(2)>>, <<Str("2"), Num(2)>>,
            <<Str("1"), Num(3)>>, <<Str("1"), Num(4)>>, <<Str("end main")>> >>

Handled == out.op = "machine" /\ out.kind = "handlers"

\* the frame whose handler has an entry for the performed type and is
\* closest to inner: 2 for the handler of middle, 1 for that of outer, 0
\* when there is none
HandlingFrame ==
  IF out.type \in out.types2 THEN 2
  ELSE IF out.type \in out.types1 THEN 1 ELSE 0

\* what a clause of frame k returns to the parent of that frame, rest being
\* what the frames below the parent give it when the clause resumes them
ClauseResult(k, resumes, rest) ==
  IF resumes THEN Arr(<<Str("resumed"), Num(k), rest>>)
  ELSE Arr(<<Str("handled"), Num(k)>>)

InnerResult == Arr(<<Str("inner"), Str("answer")>>)

\* C22: perform(type, data) runs the clause of the closest withHandler
\* frame above the performing generator whose handler has an entry for
\* type, and no other; what the clause returns is returned to the parent of
\* that frame (to middle for the handler around inner, to outer for the
\* handler around middle), after the frames it resumed; when no frame has
\* an entry the error is "Unhandled Effect <type>!", no clause runs and
\* nothing is delivered
C22_ClosestHandler ==
  Handled =>
    /\ HandlingFrame = 0 =>
         /\ out.m.console = <<>>
         /\ out.m.delivered = <<>>
         /\ out.m.error \in {undefined,
                             Str("Unhandled Effect " \o out.type \o "!")}
         /\ Halted => out.m.error # undefined
    /\ HandlingFrame # 0 =>
         /\ out.m.error = undefined
         /\ IsPrefix(out.m.console, <<(<<Num(HandlingFrame), Str("data")>>)>>)
         /\ Halted => /\ out.m.console = <<(<<Num(HandlingFrame), Str("data")>>)>>
                      /\ out.m.delivered =
                           <<IF HandlingFrame = 2
                               THEN Arr(<<Str("outer"),
                                          Arr(<<Str("middle"),
                                                ClauseResult(2, out.resumes2,
                                                             InnerResult)>>)>>)
                               ELSE Arr(<<Str("outer"),
                                          ClauseResult(1, out.resumes1,
                                            Arr(<<Str("middle"),
                                                  InnerResult>>))>>)>>

C22_Witness ==
  /\ Handled /\ Halted
  /\ out.types1 = {"a", "b"} /\ out.types2 = {"b"} /\ out.type = "a"
  /\ out.resumes1
  /\ out.m.delivered =
       <<Arr(<<Str("outer"),
               Arr(<<Str("resumed"), Num(1),
                     Arr(<<Str("middle"),
                           Arr(<<Str("inner"), Str("answer")>>)>>)>>)>>)>>

\* the messages each followed by a space, in program order
RECURSIVE Collected(_)
Collected(msgs) ==
  IF msgs = <<>> THEN ""
  ELSE Head(msgs).str \o " " \o Collected(Tail(msgs))

\* C23: when main, parent and child of the collected logs have run, the
\* callback console.log has been given the pair of 10 and the messages of
\* child in program order, [10, "A B C "] for the logs A, B and C
C23_CollectLogs ==
  (/\ out.op = "machine" /\ out.kind = "logs" /\ Halted
   /\ out.msgs = <<Str("A"), Str("B"), Str("C")>>) =>
    out.m.console = <<(<<Arr(<<Num(10), Str(Collected(out.msgs))>>)>>)>>

Resetting == out.op = "machine" /\ out.kind = "reset"

\* the generators of the machine made from the generator function code
GeneratorsOf(code) ==
  {i \in 1..Len(out.m.heap) : out.m.heap[i].code = code}

\* C24: the value of reset { a = 10; b = shift(body); return a * b } is what
\* body returns: with body = k => { c = k(v); return c + 3 } it is 10 * v +
\* 3, the frames between the shift and the reset having run to their end
\* with v for the shift expression, 23 for v = 2; with a body that does not
\* call k it is the value the body returns, and the body of the reset is
\* never resumed
C24_ShiftReset ==
  Resetting =>
    /\ out.m.error = undefined
    /\ out.m.delivered \in
         {<<>>, <<IF out.calls THEN Num(10 * out.v + 3)
                  ELSE Str("from inside shift")>>}
    /\ Halted =>
         /\ out.m.delivered # <<>>
         /\ \A i \in GeneratorsOf("resetBody") \cup GeneratorsOf("child_shift") :
              /\ out.m.heap[i].done = out.calls
              /\ out.m.heap[i].pc = 1

C24_Witness ==
  /\ Resetting /\ Halted
  /\ out.calls /\ out.v = 2 /\ ~out.nested
  /\ out.m.delivered = <<Num(23)>>

----------------------------------------------------------------------------
(* Evaluations and the continuations they invoke *)

\* C25: when the tree of par(c1, c2), run to its end once, is run once
\* more, the second evaluation is like the first: while one of its branches
\* is still to complete it has delivered nothing, and at its end it has
\* delivered one pair and its first branch to finish has ended in an exit()
C25_EvaluationsIndependent ==
  Async("par again") =>
    /\ out.w.timers # <<>> => Len(out.w.console) = 1
    /\ out.w.timers = <<>> => Len(out.w.console) = 2 /\ Len(Exits) = 2

\* the yields of the routine the program was made from
Yields == program.resume.then.gf.yields

\* how many times the prints and the exit of a routine are reached, every
\* fork before them doubling the flows
RECURSIVE Reached(_, _)
Reached(ys, what) ==
  IF ys = <<>> \/ Head(ys) = exit THEN (IF what = "exit" THEN 1 ELSE 0)
  ELSE IF Head(ys) = fork THEN 2 * Reached(Tail(ys), what)
  ELSE IF Head(ys) = print(Str("A")) /\ what = "print"
    THEN 1 + Reached(Tail(ys), what)
  ELSE Reached(Tail(ys), what)

PickedMax == RootHandled /\ out.model = PickMaxModel

\* how many times the continuation of the root was resumed with a
Resumptions(a) == Len(SelectSeq(RootResumes, LAMBDA x : x = a))

\* C27 as stated: pickMax invokes the continuation of a decide node once
\* with true and once with false
C27_ResumedOncePerAnswer ==
  (PickedMax /\ ~IsNode(out.result)) =>
    /\ Resumptions(Bool(TRUE)) = 1
    /\ Resumptions(Bool(FALSE)) = 1

\* C27: pickMax invokes the continuation of a decide node with true, and
\* go replays the entry from its start each time an answer has come back:
\* the continuation is invoked with true, true, false, true, false, three
\* times with true and twice with false, when both branches give a value,
\* and a first part of that while a branch has given a node
C27_ResumedOnEachReplay ==
  PickedMax =>
    /\ RootResumes # <<>>
    /\ IsPrefix(RootResumes, <<Bool(TRUE), Bool(TRUE), Bool(FALSE),
                               Bool(TRUE), Bool(FALSE)>>)
    /\ ~IsNode(out.result) =>
         /\ Resumptions(Bool(TRUE)) = 3
         /\ Resumptions(Bool(FALSE)) = 2

C27_Witness ==
  /\ PickedMax
  /\ program.name = Str("decide")
  /\ out.result = Num(30)
  /\ RootResumes = <<Bool(TRUE), Bool(TRUE), Bool(FALSE), Bool(TRUE),
                     Bool(FALSE)>>

\* what evaluating the subtree of the root for the answer a gives when it
\* is done on its own
Subtree(a) ==
  AndThen(Apply(Prop(program, "resume"), a, W0),
          LAMBDA t, w : Handler(lang, out.model, t, W0))

\* C28: when the evaluation returns a residual node for the unhandled
\* operation at the root, no entry of the model has been called and no
\* continuation invoked; each invocation of the continuation of the
\* residual node, the first and the later ones alike, evaluates the
\* subtree for its answer from its start: it returns what that evaluation
\* returns, calls the entries of the model it calls and writes what it
\* writes
C28_ForwardingIsLazy ==
  /\ RootUnhandled =>
       /\ out.w.calls = <<>>
       /\ out.w.resumed = <<>>
       /\ out.w.console = <<>>
  /\ out.op = "forward" =>
       \A s \in {Subtree(out.a)} :
         /\ out.v = s.v
         /\ out.w.calls = s.w.calls
         /\ SubSeq(out.w.console, out.before + 1, Len(out.w.console))
              = s.w.console

C28_Witness ==
  /\ out.op = "forward"
  /\ out.count = 2
  /\ Len(out.w.calls) >= 1
  /\ out.before >= 1
  /\ Len(out.w.console) = 2 * out.before

\* the calls run has made of its entries for the first operation of c1,
\* and for that of c2, as places in the sequence of all its calls
Performed(first) ==
  {i \in DOMAIN out.w.calls : out.w.calls[i].args[1] \in first}

FirstOfLeft ==
  Performed({Str("L"), [fn |-> "wait_start", ms |-> 0],
             [fn |-> "wait_start", ms |-> MaxDelay]})

FirstOfRight == Performed({Str("R"), [fn |-> "wait_start", ms |-> 1]})

UpTo(n) == [i \in 1..(n + 1) |-> Num(i - 1)]

\* the lines of go calls that were given n1, n2, ... answers
RECURSIVE Replays(_)
Replays(ns) ==
  IF ns = <<>> THEN <<>> ELSE UpTo(Head(ns)) \o Replays(Tail(ns))

\* how many times the line k was written
Lines(k) == Len(SelectSeq(out.w.console, LAMBDA x : x = Num(k)))

\* C30: every call of go makes a generator of its own, one when the tree
\* is built and one for each invocation of a continuation, and steps it
\* through all the answers of its history: a call with n answers writes the
\* lines 0 to n of the routine again.  The line before the first
\* suspension point is written once more than continuations were invoked,
\* and the line before the point k + 1 once for each invocation that gave
\* an answer to the point k or to a later one
C30_GoReplays ==
  out.op = "trace" =>
    /\ Len(out.w.made) = 1 + Len(out.shots)
    /\ \A i \in DOMAIN out.w.made : out.w.made[i].gf = out.gf
    /\ out.w.console = <<Num(0)>> \o Replays(out.shots)
    /\ Lines(0) = 1 + Len(out.shots)
    /\ \A k \in 1..Len(out.gf.yields) :
         Lines(k) = Len(SelectSeq(out.shots, LAMBDA n : n >= k))

C30_Witness ==
  /\ out.op = "trace"
  /\ out.shots = <<1, 2>>
  /\ out.w.console = <<Num(0), Num(0), Num(1), Num(0), Num(1), Num(2)>>

====
